---- MODULE Spec2Model ----
(***************************************************************************)
(* A model of the eink-proxy image pipeline (package eink_proxy):          *)
(* the palette engine (processing/palette.py), the dither engines          *)
(* (processing/dither.py), the mask builder (processing/masking.py), the   *)
(* enhancer (processing/enhance.py) and the compositor                     *)
(* (processing/pipeline.py).                                               *)
(*                                                                         *)
(* Conventions.  A pixel is a triple <<r, g, b>> of 0..255.  A raster is a *)
(* sequence of rows, img[y][x], 1-based.  A mask is a raster of 0..255.    *)
(* Palette indices are 0..6 as in the Python source.  Floating point       *)
(* quantities are kept exact: a settings float is an integer number of     *)
(* hundredths, and a mix ratio is a record [num, den, eps] that stands for *)
(* num / (den + eps * 1e-6).                                               *)
(***************************************************************************)
EXTENDS Integers, Sequences, FiniteSets, TLC

\* ------------------------------------------------------------------------
\* Bounds of the model
\* ------------------------------------------------------------------------

\* number of evenly spaced channel values added to the boundary values
GridN == 3

\* ------------------------------------------------------------------------
\* config.py
\* ------------------------------------------------------------------------

EINK_PALETTE ==
  << <<0, 0, 0>>, <<255, 255, 255>>, <<255, 0, 0>>, <<255, 255, 0>>,
     <<0, 255, 0>>, <<0, 0, 255>>, <<255, 165, 0>> >>

PaletteIndices == 0 .. (Len(EINK_PALETTE) - 1)

Pal(index) == EINK_PALETTE[index + 1]

PaletteColours == { Pal(i) : i \in PaletteIndices }

\* ------------------------------------------------------------------------
\* Arithmetic helpers
\* ------------------------------------------------------------------------

Max2(a, b) == IF a >= b THEN a ELSE b

Min2(a, b) == IF a <= b THEN a ELSE b

Max3(r, g, b) == Max2(r, Max2(g, b))

Min3(r, g, b) == Min2(r, Min2(g, b))

Abs(a) == IF a < 0 THEN -a ELSE a

Clip8(v) == IF v <= 0 THEN 0 ELSE IF v >= 255 THEN 255 ELSE v

\* ------------------------------------------------------------------------
\* processing/palette.py
\* ------------------------------------------------------------------------

\* float("inf") of the searches: above every squared distance (3 * 255^2)
Inf == 200000

\* the squared distance with the blue channel left out
SqDistRG(p, q) ==
  (p[1] - q[1]) * (p[1] - q[1]) + (p[2] - q[2]) * (p[2] - q[2])

SqDist(p, q) ==
  (p[1] - q[1]) * (p[1] - q[1]) + (p[2] - q[2]) * (p[2] - q[2])
    + (p[3] - q[3]) * (p[3] - q[3])

is_neutral(rgb) ==
  LET max_channel == Max3(rgb[1], rgb[2], rgb[3])
      min_channel == Min3(rgb[1], rgb[2], rgb[3])
  IN  max_channel - min_channel <= Max2(12, max_channel \div 10)

\* luminance = 0.2126 r + 0.7152 g + 0.0722 b, compared with 200 (x 10000)
nearest_bw(rgb) ==
  IF 2126 * rgb[1] + 7152 * rgb[2] + 722 * rgb[3] <= 2000000 THEN 0 ELSE 1

RECURSIVE NearestLoop(_, _, _, _)
NearestLoop(rgb, index, best_index, best_distance) ==
  IF index > 6 THEN best_index
  ELSE LET distance == SqDist(Pal(index), rgb)
       IN  IF distance < best_distance
           THEN NearestLoop(rgb, index + 1, index, distance)
           ELSE NearestLoop(rgb, index + 1, best_index, best_distance)

\* the nearest entry by squared distance alone, without the neutral test
nearest_by_distance(rgb) == NearestLoop(rgb, 0, 0, Inf)

nearest_palette_index(rgb) ==
  IF is_neutral(rgb) THEN nearest_bw(rgb) ELSE NearestLoop(rgb, 0, 0, Inf)

\* the running top-2 without its elif branch
RECURSIVE TopOneLoop(_, _, _)
TopOneLoop(rgb, index, best) ==
  IF index > 6 THEN <<best[1][2], best[2][2]>>
  ELSE LET distance == SqDist(Pal(index), rgb)
       IN  IF distance < best[1][1]
           THEN TopOneLoop(rgb, index + 1, << <<distance, index>>, best[1] >>)
           ELSE TopOneLoop(rgb, index + 1, best)

RECURSIVE NearestTwoLoop(_, _, _)
NearestTwoLoop(rgb, index, best) ==
  IF index > 6 THEN <<best[1][2], best[2][2]>>
  ELSE LET distance == SqDist(Pal(index), rgb)
       IN  IF distance < best[1][1]
           THEN NearestTwoLoop(rgb, index + 1, << <<distance, index>>, best[1] >>)
           ELSE IF distance < best[2][1]
           THEN NearestTwoLoop(rgb, index + 1, << best[1], <<distance, index>> >>)
           ELSE NearestTwoLoop(rgb, index + 1, best)

nearest_two_palette(rgb) ==
  IF is_neutral(rgb) THEN <<0, 1>>
  ELSE NearestTwoLoop(rgb, 0, << <<Inf, -1>>, <<Inf, -1>> >>)

\* the floats 0.0 and 1.0
AlphaZero == [num |-> 0, den |-> 1, eps |-> 0]

AlphaOne == [num |-> 1, den |-> 1, eps |-> 0]

\* the projection measured from color_a instead of color_b
MixNumeratorFromA(rgb, color_a, color_b) ==
  (color_a[1] - color_b[1]) * (rgb[1] - color_a[1])
    + (color_a[2] - color_b[2]) * (rgb[2] - color_a[2])
    + (color_a[3] - color_b[3]) * (rgb[3] - color_a[3])

MixNumerator(rgb, color_a, color_b) ==
  (color_a[1] - color_b[1]) * (rgb[1] - color_b[1])
    + (color_a[2] - color_b[2]) * (rgb[2] - color_b[2])
    + (color_a[3] - color_b[3]) * (rgb[3] - color_b[3])

\* the quotient without max(0.0, min(1.0, ...))
mix_ratio_unclamped(rgb, color_a_index, color_b_index) ==
  [num |-> MixNumerator(rgb, Pal(color_a_index), Pal(color_b_index)),
   den |-> SqDist(Pal(color_a_index), Pal(color_b_index)), eps |-> 1]

\* alpha = max(0.0, min(1.0, numerator / (1e-6 + sum of squares))).
\* numerator and the sum of squares are integers, so the quotient is at
\* most 0 iff numerator <= 0 and at least 1 iff numerator > sum of squares.
mix_ratio(rgb, color_a_index, color_b_index) ==
  LET color_a == Pal(color_a_index)
      color_b == Pal(color_b_index)
      numerator == MixNumerator(rgb, color_a, color_b)
      squares == SqDist(color_a, color_b)
  IN  IF numerator <= 0 THEN AlphaZero
      ELSE IF numerator > squares THEN AlphaOne
      ELSE [num |-> numerator, den |-> squares, eps |-> 1]

\* denominator = 1e-6, in millionths
MixEpsilon == 1

\* the exceptions mix_ratio raises: numerator / denominator divides by
\* zero when the denominator is 0, that is when neither the start value
\* nor the sum of squares (both at least 0) is positive
mix_ratio_raises(rgb, color_a_index, color_b_index) ==
  IF MixEpsilon = 0 /\ SqDist(Pal(color_a_index), Pal(color_b_index)) = 0
  THEN <<"ZeroDivisionError">>
  ELSE <<>>

\* alpha >= tn / td for 0 < tn <= td
AlphaGE(alpha, tn, td) ==
  IF alpha.eps = 0
  THEN alpha.num * td >= tn * alpha.den
  ELSE alpha.num * td - tn * alpha.den >= 1

\* ------------------------------------------------------------------------
\* Rasters and the Pillow operations the pipeline calls
\* ------------------------------------------------------------------------

\* G(v), G(a, b), G(a, b, c): the arguments are evaluated once and bound,
\* and the result is compared with itself, which makes TLC compute a raster
\* once instead of once per pixel access.
Force(v) == CHOOSE w \in {v} : w = w

With1(v, G(_)) == CHOOSE r \in { G(w) : w \in {v} } : r = r

With2(a, b, G(_, _)) == CHOOSE r \in { G(u, w) : u \in {a}, w \in {b} } : r = r

With3(a, b, c, G(_, _, _)) ==
  CHOOSE r \in { G(u, v, w) : u \in {a}, v \in {b}, w \in {c} } : r = r

Height(img) == Len(img)

Width(img) == Len(img[1])

Rows(img) == 1 .. Height(img)

Cols(img) == 1 .. Width(img)

Pixels(img) == { <<x, y>> : x \in Cols(img), y \in Rows(img) }

Map1(img, F(_)) ==
  With1(img, LAMBDA i : [y \in Rows(i) |-> [x \in Cols(i) |-> F(i[y][x])]])

Map2(a, b, F(_, _)) ==
  With2(a, b, LAMBDA i, j :
    [y \in Rows(i) |-> [x \in Cols(i) |-> F(i[y][x], j[y][x])]])

Map3(a, b, c, F(_, _, _)) ==
  With3(a, b, c, LAMBDA i, j, k :
    [y \in Rows(i) |-> [x \in Cols(i) |-> F(i[y][x], j[y][x], k[y][x])]])

Solid(w, h, v) == [y \in 1 .. h |-> [x \in 1 .. w |-> v]]

\* pixel access with the edge pixels replicated outwards (ImagingExpand,
\* box blur edge handling)
At(img, x, y) ==
  img[Min2(Max2(y, 1), Height(img))][Min2(Max2(x, 1), Width(img))]

\* floor division that truncates towards zero, as C and Python int() do
TruncDiv(a, b) == IF a >= 0 THEN a \div b ELSE -((-a) \div b)

Band(img, c) == Map1(img, LAMBDA p : p[c])

Merge(r, g, b) == Map3(r, g, b, LAMBDA x, y, z : <<x, y, z>>)

PerBand(img, F(_)) == Merge(F(Band(img, 1)), F(Band(img, 2)), F(Band(img, 3)))

\* Image.convert("L"): ITU-R 601-2 luma in 16-bit fixed point
L24(p) == (p[1] * 19595 + p[2] * 38470 + p[3] * 7471 + 32768) \div 65536

ConvertL(img) == Map1(img, L24)

ConvertLtoRGB(img) == Map1(img, LAMBDA v : <<v, v, v>>)

\* Image.convert("HSV") of one pixel: <<h, s, v>>
RGBtoHSV(p) ==
  LET maxc == Max3(p[1], p[2], p[3])
      minc == Min3(p[1], p[2], p[3])
      cr == maxc - minc
      k == IF p[1] = maxc THEN 0 ELSE IF p[2] = maxc THEN 2 ELSE 4
      num == IF p[1] = maxc THEN p[2] - p[3]
             ELSE IF p[2] = maxc THEN p[3] - p[1] ELSE p[1] - p[2]
      t == (k * cr + num + 6 * cr) % (6 * cr)
  IN  IF minc = maxc THEN <<0, 0, maxc>>
      ELSE <<(255 * t) \div (6 * cr), (255 * cr) \div maxc, maxc>>

ConvertHSV(img) == Map1(img, RGBtoHSV)

\* Image.point on an "L" image
Point(img, F(_)) == Map1(img, F)

ImageOps_invert(img) == Map1(img, LAMBDA v : 255 - v)

\* ImageFilter kernels (3x3, row-major) with their scale
FIND_EDGES == <<-1, -1, -1, -1, 8, -1, -1, -1, -1>>

SMOOTH == <<1, 1, 1, 1, 5, 1, 1, 1, 1>>

KernelSum(img, k, x, y) ==
  k[1] * img[y - 1][x - 1] + k[2] * img[y - 1][x] + k[3] * img[y - 1][x + 1]
    + k[4] * img[y][x - 1] + k[5] * img[y][x] + k[6] * img[y][x + 1]
    + k[7] * img[y + 1][x - 1] + k[8] * img[y + 1][x] + k[9] * img[y + 1][x + 1]

\* ImageFilter.Kernel on an "L" image (ImagingFilter3x3): an image smaller
\* than the kernel is copied, the border pixels are copied, an inner pixel
\* is clip8(sum / scale + 0.5)
Filter3x3(img, k, scale) ==
  With1(img, LAMBDA i :
    IF Width(i) < 3 \/ Height(i) < 3 THEN i
    ELSE [y \in Rows(i) |-> [x \in Cols(i) |->
           IF x = 1 \/ y = 1 \/ x = Width(i) \/ y = Height(i)
           THEN i[y][x]
           ELSE Clip8((2 * KernelSum(i, k, x, y) + scale) \div (2 * scale))]])

RECURSIVE RowSum(_, _, _, _, _)
RowSum(img, x, y, lo, hi) ==
  IF lo > hi THEN 0 ELSE At(img, x + lo, y) + RowSum(img, x, y, lo + 1, hi)

RECURSIVE ColSum(_, _, _, _, _)
ColSum(img, x, y, lo, hi) ==
  IF lo > hi THEN 0 ELSE At(img, x, y + lo) + ColSum(img, x, y, lo + 1, hi)

\* One horizontal pass of the extended box blur (ImagingLineBoxBlur8): the
\* pixels within radius r weigh wi / den, the two pixels at r + 1 weigh
\* wo / den, the result is rounded to nearest.
HorizontalBoxBlur(img, b) ==
  With1(img, LAMBDA i : [y \in Rows(i) |-> [x \in Cols(i) |->
    (b.wi * RowSum(i, x, y, -b.r, b.r)
       + b.wo * (At(i, x - b.r - 1, y) + At(i, x + b.r + 1, y))
       + b.den \div 2) \div b.den]])

VerticalBoxBlur(img, b) ==
  With1(img, LAMBDA i : [y \in Rows(i) |-> [x \in Cols(i) |->
    (b.wi * ColSum(i, x, y, -b.r, b.r)
       + b.wo * (At(i, x, y - b.r - 1) + At(i, x, y + b.r + 1))
       + b.den \div 2) \div b.den]])

RECURSIVE HorizontalPasses(_, _, _)
HorizontalPasses(img, b, n) ==
  IF n = 0 THEN img ELSE HorizontalPasses(HorizontalBoxBlur(img, b), b, n - 1)

RECURSIVE VerticalPasses(_, _, _)
VerticalPasses(img, b, n) ==
  IF n = 0 THEN img ELSE VerticalPasses(VerticalBoxBlur(img, b), b, n - 1)

\* ImagingBoxBlur: n horizontal passes, then n vertical passes
ImagingBoxBlur(img, b, n) == VerticalPasses(HorizontalPasses(img, b, n), b, n)

\* ImageFilter.BoxBlur(radius) for an integer radius
BoxBlur(img, radius) ==
  ImagingBoxBlur(img, [r |-> radius, wi |-> 1, wo |-> 0, den |-> 2 * radius + 1], 1)

\* _gaussian_blur_radius(radius, 3): the box radius R of the three passes,
\* as integer part r and weights 1 / (2R + 1) and (R - r) / (2R + 1).
\* radius 1 -> R = 0.25, radius 2 -> R = 1.375, radius 3 -> R = 2.41667
GaussianBox(radius) ==
  CASE radius = 1 -> [r |-> 0, wi |-> 4, wo |-> 1, den |-> 6]
    [] radius = 2 -> [r |-> 1, wi |-> 8, wo |-> 3, den |-> 30]
    [] radius = 3 -> [r |-> 2, wi |-> 12, wo |-> 5, den |-> 70]

\* ImageFilter.GaussianBlur(radius) on an "L" image; radius 0 copies
GaussianBlur(img, radius) ==
  IF radius = 0 THEN img ELSE ImagingBoxBlur(img, GaussianBox(radius), 3)

Window(m) == { <<dx, dy>> : dx \in (-m) .. m, dy \in (-m) .. m }

SetMax(S) == CHOOSE v \in S : \A u \in S : u <= v

SetMin(S) == CHOOSE v \in S : \A u \in S : v <= u

\* ImageFilter.MaxFilter / MinFilter / MedianFilter (ImagingRankFilter on
\* the image expanded by size \div 2 replicated pixels)
MaxFilter(img, size) ==
  With1(img, LAMBDA i : [y \in Rows(i) |-> [x \in Cols(i) |->
    SetMax({ At(i, x + d[1], y + d[2]) : d \in Window(size \div 2) })]])

MinFilter(img, size) ==
  With1(img, LAMBDA i : [y \in Rows(i) |-> [x \in Cols(i) |->
    SetMin({ At(i, x + d[1], y + d[2]) : d \in Window(size \div 2) })]])

MedianFilter(img, size) ==
  With1(img, LAMBDA i : [y \in Rows(i) |-> [x \in Cols(i) |->
    LET win == Window(size \div 2)
        half == (size * size) \div 2
        val(d) == At(i, x + d[1], y + d[2])
    IN  CHOOSE v \in { val(d) : d \in win } :
          /\ Cardinality({ d \in win : val(d) < v }) <= half
          /\ Cardinality({ d \in win : val(d) <= v }) > half]])

\* the first operand, nothing subtracted
ImageChops_keep(a, b) == Force(a)

\* ImageChops on "L" images
ImageChops_subtract(a, b) == Map2(a, b, LAMBDA p, q : Clip8(p - q))

\* ImageChops.darker, the pixel-wise minimum
ImageChops_darker(a, b) == Map2(a, b, Min2)

ImageChops_lighter(a, b) == Map2(a, b, Max2)

ImageChops_multiply(a, b) == Map2(a, b, LAMBDA p, q : (p * q) \div 255)

\* ImageChops.difference and .multiply on "RGB" images
AbsDiff3(p, q) == <<Abs(p[1] - q[1]), Abs(p[2] - q[2]), Abs(p[3] - q[3])>>

ImageChops_difference(a, b) == Map2(a, b, AbsDiff3)

Mul3(p, q) ==
  <<(p[1] * q[1]) \div 255, (p[2] * q[2]) \div 255, (p[3] * q[3]) \div 255>>

ImageChops_multiply_rgb(a, b) == Map2(a, b, Mul3)

\* BLEND8(mask, in1, in2) = DIV255(in1 * (255 - mask) + in2 * mask)
BLEND8(mask, in1, in2) ==
  LET tmp == in1 * (255 - mask) + in2 * mask + 128
  IN  ((tmp \div 256) + tmp) \div 256

Blend3(mask, p, q) ==
  <<BLEND8(mask, p[1], q[1]), BLEND8(mask, p[2], q[2]), BLEND8(mask, p[3], q[3])>>

\* dst.paste(im, mask=mask) on "RGB" images with an "L" mask
Paste(dst, im, mask) == Map3(dst, im, mask, LAMBDA d, s, m : Blend3(m, d, s))

\* Image.composite(image1, image2, mask) = image2.copy().paste(image1, mask)
Image_composite(image1, image2, mask) == Paste(image2, image1, mask)

\* Image.blend(im1, im2, alpha) on one band, alpha in hundredths:
\* trunc(in1 + alpha * (in2 - in1)) clipped to 0..255
Blend8(in1, in2, alpha) == Clip8((100 * in1 + alpha * (in2 - in1)) \div 100)

Image_blend(im1, im2, alpha) ==
  Map2(im1, im2, LAMBDA p, q :
    <<Blend8(p[1], q[1], alpha), Blend8(p[2], q[2], alpha), Blend8(p[3], q[3], alpha)>>)

\* ------------------------------------------------------------------------
\* processing/enhance.py
\* ------------------------------------------------------------------------

\* the lookup table apply_gamma builds for gamma = 0.95:
\* min(255, max(0, int(((value / 255.0) ** (1 / 0.95)) * 255 + 0.5)))
GAMMA_LUT_095 ==
  << 0, 1, 2, 2, 3, 4, 5, 6, 7, 8, 8, 9, 10, 11, 12, 13,
       14, 15, 16, 17, 17, 18, 19, 20, 21, 22, 23, 24, 25, 26, 27, 28,
       29, 30, 31, 32, 32, 33, 34, 35, 36, 37, 38, 39, 40, 41, 42, 43,
       44, 45, 46, 47, 48, 49, 50, 51, 52, 53, 54, 55, 56, 57, 58, 59,
       60, 60, 61, 62, 63, 64, 65, 66, 67, 68, 69, 70, 71, 72, 73, 74,
       75, 76, 77, 78, 79, 80, 81, 82, 83, 84, 85, 86, 87, 88, 89, 90,
       91, 92, 93, 94, 95, 96, 97, 98, 99, 100, 101, 102, 103, 104, 105, 106,
       107, 108, 109, 110, 111, 112, 113, 114, 115, 116, 117, 118, 119, 120, 121, 122,
       123, 124, 125, 126, 128, 129, 130, 131, 132, 133, 134, 135, 136, 137, 138, 139,
       140, 141, 142, 143, 144, 145, 146, 147, 148, 149, 150, 151, 152, 153, 154, 155,
       156, 157, 158, 159, 160, 161, 162, 163, 164, 165, 166, 167, 168, 170, 171, 172,
       173, 174, 175, 176, 177, 178, 179, 180, 181, 182, 183, 184, 185, 186, 187, 188,
       189, 190, 191, 192, 193, 194, 195, 196, 197, 198, 200, 201, 202, 203, 204, 205,
       206, 207, 208, 209, 210, 211, 212, 213, 214, 215, 216, 217, 218, 219, 220, 221,
       222, 224, 225, 226, 227, 228, 229, 230, 231, 232, 233, 234, 235, 236, 237, 238,
       239, 240, 241, 242, 243, 244, 246, 247, 248, 249, 250, 251, 252, 253, 254, 255 >>

\* gamma is in hundredths; the table is skipped when |gamma - 1.0| < 1e-3
apply_gamma(img, gamma) ==
  IF gamma = 100 THEN img
  ELSE Map1(img, LAMBDA p :
         <<GAMMA_LUT_095[p[1] + 1], GAMMA_LUT_095[p[2] + 1], GAMMA_LUT_095[p[3] + 1]>>)

\* the exceptions apply_gamma raises: past the early return, 1.0 / gamma
\* divides by zero for gamma = 0, and for a negative gamma the first table
\* entry is 0.0 raised to a negative power
apply_gamma_raises(gamma) ==
  IF gamma = 100 THEN <<>>
  ELSE IF gamma <= 0 THEN <<"ZeroDivisionError">>
  ELSE <<>>

\* the names "from PIL import ..." binds in enhance.py
enhance_imports == {"Image", "ImageEnhance", "ImageFilter", "ImageOps"}

\* the exceptions a use of the global names raises: NameError for a name
\* the module never binds
name_lookup(names, bound) == IF names \subseteq bound THEN <<>> ELSE <<"NameError">>

\* darken_lines ends with ImageChops.multiply(img, thickened_rgb)
darken_lines_raises == name_lookup({"ImageOps", "ImageFilter", "ImageChops"}, enhance_imports)

\* the value darken_lines computes with ImageChops bound to PIL's ImageChops
darken_lines(img) ==
  LET gray == ImageOps_invert(ConvertL(img))
      thickened == ImageOps_invert(MaxFilter(gray, 3))
      thickened_rgb == ConvertLtoRGB(thickened)
  IN  ImageChops_multiply_rgb(img, thickened_rgb)

RECURSIVE SumRow(_, _)
SumRow(row, x) == IF x = 0 THEN 0 ELSE row[x] + SumRow(row, x - 1)

RECURSIVE SumImg(_, _)
SumImg(img, y) ==
  IF y = 0 THEN 0 ELSE SumRow(img[y], Len(img[y])) + SumImg(img, y - 1)

\* ImageEnhance.Contrast(img).enhance(factor): blend from the solid image
\* of the rounded mean luma
Contrast(img, factor) ==
  LET n == Width(img) * Height(img)
      mean == (2 * SumImg(ConvertL(img), Height(img)) + n) \div (2 * n)
  IN  Image_blend(Solid(Width(img), Height(img), <<mean, mean, mean>>), img, factor)

\* ImageEnhance.Color(img).enhance(factor): blend from the grey version
Color(img, factor) == Image_blend(ConvertLtoRGB(ConvertL(img)), img, factor)

\* ImageEnhance.Sharpness(img).enhance(factor): blend from the smoothed image
Sharpness(img, factor) ==
  Image_blend(PerBand(img, LAMBDA c : Filter3x3(c, SMOOTH, 13)), img, factor)

Unsharp8(in, blur, percent, threshold) ==
  IF Abs(in - blur) >= threshold
  THEN Clip8(in + TruncDiv((in - blur) * percent, 100))
  ELSE in

\* ImageFilter.UnsharpMask(radius, percent, threshold)
UnsharpMask(img, radius, percent, threshold) ==
  Map2(img, PerBand(img, LAMBDA c : GaussianBlur(c, radius)),
       LAMBDA p, q : <<Unsharp8(p[1], q[1], percent, threshold),
                       Unsharp8(p[2], q[2], percent, threshold),
                       Unsharp8(p[3], q[3], percent, threshold)>>)

enhance_ui(img, cfg) ==
  LET img1 == darken_lines(img)
      img2 == Contrast(img1, cfg.contrast)
      img3 == Color(img2, cfg.saturation)
      img4 == apply_gamma(img3, cfg.gamma)
      img5 == Sharpness(img4, cfg.sharpness_ui)
  IN  UnsharpMask(img5, 1, 150, 3)

enhance_photo(img, cfg) ==
  LET img1 == Contrast(img, cfg.contrast)
      img2 == Color(img1, cfg.saturation)
      img3 == apply_gamma(img2, cfg.gamma)
  IN  Sharpness(img3, 120)

\* ------------------------------------------------------------------------
\* processing/masking.py
\* ------------------------------------------------------------------------

threshold_channel(channel, threshold, invert) ==
  LET mask == Point(channel, LAMBDA v : IF v >= threshold THEN 255 ELSE 0)
  IN  IF invert THEN ImageOps_invert(mask) ELSE mask

compute_texture_energy(gray_src, radius) ==
  BoxBlur(Filter3x3(gray_src, FIND_EDGES, 1), radius)

\* the strong edges with the photo regions left in
keep_strong_edges(strong_edges, photo) == strong_edges

\* "CRITICAL: Remove Photo regions from the Edge Mask."
subtract_photo(strong_edges, photo) == ImageChops_subtract(strong_edges, photo)

\* the dilated flat area with the edges left in
dilate_flat_only(flat_raw, clean_edges) == MaxFilter(flat_raw, 5)

\* the flat area is dilated, "But don't let it overwrite the text itself"
subtract_edges(flat_raw, clean_edges) ==
  ImageChops_subtract(MaxFilter(flat_raw, 5), clean_edges)

\* the areas whose gradient is at or above the threshold
steep_gradient(grad, threshold) ==
  Point(grad, LAMBDA p : IF p >= threshold THEN 255 ELSE 0)

\* "Find areas with very little gradient"
flat_gradient(grad, threshold) ==
  Point(grad, LAMBDA p : IF p < threshold THEN 255 ELSE 0)

\* build_masks returns (edge_mask, mid_gray_mask, flat, photo_mask); the
\* record also carries its locals strong_edges, clean_sub (clean_edges
\* right after the subtraction) and clean_edges (after the cleanup)
build_masks(src, cfg) ==
  LET gray == ConvertL(src)
      texture_energy == compute_texture_energy(gray, 3)
      photo_thr == threshold_channel(texture_energy, cfg.texture_density_threshold, FALSE)
      photo == GaussianBlur(MaxFilter(photo_thr, 3), 2)
      edges == Filter3x3(gray, FIND_EDGES, 1)
      strong_edges == threshold_channel(edges, cfg.edge_threshold, FALSE)
      clean_sub == subtract_photo(strong_edges, photo)
      clean_edges == MaxFilter(MinFilter(clean_sub, 3), 3)
      edge == GaussianBlur(clean_edges, cfg.mask_blur)
      grad == GaussianBlur(edges, 1)
      flat_raw == flat_gradient(grad, cfg.sky_gradient_threshold)
      flat == subtract_edges(flat_raw, clean_edges)
      hsv == ConvertHSV(src)
      saturation == Band(hsv, 2)
      value == Band(hsv, 3)
      mid_l == ImageChops_subtract(threshold_channel(value, cfg.mid_l_min, FALSE),
                                   threshold_channel(value, cfg.mid_l_max, FALSE))
      low_sat == threshold_channel(saturation, cfg.mid_s_max, TRUE)
      mid_sub == ImageChops_subtract(ImageChops_multiply(mid_l, low_sat), photo)
      mid_gray == GaussianBlur(mid_sub, cfg.mask_blur)
  IN  [edge_mask |-> edge, mid_gray_mask |-> mid_gray, flat |-> flat,
       photo_mask |-> photo, strong_edges |-> strong_edges,
       clean_sub |-> clean_sub, clean_edges |-> clean_edges]

\* ------------------------------------------------------------------------
\* processing/dither.py
\* ------------------------------------------------------------------------

BAYER_8X8 ==
  << <<0, 48, 12, 60, 3, 51, 15, 63>>,
     <<32, 16, 44, 28, 35, 19, 47, 31>>,
     <<8, 56, 4, 52, 11, 59, 7, 55>>,
     <<40, 24, 36, 20, 43, 27, 39, 23>>,
     <<2, 50, 14, 62, 1, 49, 13, 61>>,
     <<34, 18, 46, 30, 33, 17, 45, 29>>,
     <<10, 58, 6, 54, 9, 57, 5, 53>>,
     <<42, 26, 38, 22, 41, 25, 37, 21>> >>

\* the matrix read with row and column exchanged
BayerSwapped(x, y) == BAYER_8X8[((x - 1) % 8) + 1][((y - 1) % 8) + 1]

\* bayer[y & 7][x & 7] for the 1-based pixel (x, y)
Bayer(x, y) == BAYER_8X8[((y - 1) % 8) + 1][((x - 1) % 8) + 1]

\* the table read with row and column exchanged
threshold_transposed(x, y) == TruncDiv((2 * BayerSwapped(x, y) + 1) * 4, 2)

\* threshold_table[y % 8][x % 8], int((value + 0.5) * 4), for the 1-based
\* pixel (x, y)
threshold_table(x, y) == TruncDiv((2 * Bayer(x, y) + 1) * 4, 2)

ordered_bw_halftone(img) ==
  With1(ConvertL(img), LAMBDA src : [y \in Rows(src) |-> [x \in Cols(src) |->
    IF src[y][x] > threshold_table(x, y) THEN 255 ELSE 0]])

kernel1 == <<2, 4, 8, 4, 2>>

kernel2 == <<1, 2, 4, 2, 1>>

\* the share added without min(255, max(0, ...))
AddErrUnclamped(v, error, k) == v + TruncDiv(error * k, 42)

\* int(error * kernel / 42.0) added to one channel and clamped
AddErr8(v, error, k) == Min2(255, Max2(0, v + TruncDiv(error * k, 42)))

\* a diffusion that starts one row higher: rows y and y + 1, the pixel
\* (x, y) itself left out
add_error_from_row(pixels, x, y, error, flip) ==
  With2(pixels, error, LAMBDA px, err : [ny \in Rows(px) |-> [nx \in Cols(px) |->
    IF ny \in {y, y + 1} /\ Abs(nx - x) <= 2 /\ <<nx, ny>> # <<x, y>>
    THEN LET dx == IF flip THEN x - nx ELSE nx - x
             k == IF ny = y THEN kernel1[dx + 3] ELSE kernel2[dx + 3]
             p == px[ny][nx]
         IN  <<AddErr8(p[1], err[1], k), AddErr8(p[2], err[2], k),
               AddErr8(p[3], err[3], k)>>
    ELSE px[ny][nx]]])

\* add_error(x, y, error, flip): every pixel of rows y + 1 and y + 2 within
\* two columns of x receives its share; each target is written once
add_error(pixels, x, y, error, flip) ==
  With2(pixels, error, LAMBDA px, err : [ny \in Rows(px) |-> [nx \in Cols(px) |->
    IF ny \in {y + 1, y + 2} /\ Abs(nx - x) <= 2
    THEN LET dx == IF flip THEN x - nx ELSE nx - x
             k == IF ny = y + 1 THEN kernel1[dx + 3] ELSE kernel2[dx + 3]
             p == px[ny][nx]
         IN  <<AddErr8(p[1], err[1], k), AddErr8(p[2], err[2], k),
               AddErr8(p[3], err[3], k)>>
    ELSE px[ny][nx]]])

\* a scan that never reverses
never_flip(img, n) == FALSE

\* the n-th pixel (n = 0, 1, ...) of the serpentine scan, 1-based
ScanY(img, n) == (n \div Width(img)) + 1

ScanFlip(img, n) == (ScanY(img, n) - 1) % 2 = 1

ScanX(img, n) ==
  IF ScanFlip(img, n) THEN Width(img) - (n % Width(img)) ELSE (n % Width(img)) + 1

\* error = old - new of the n-th iteration of the pixel loop
StuckiError(st, n) ==
  LET old == st.pixels[ScanY(st.pixels, n)][ScanX(st.pixels, n)]
      new == Pal(nearest_palette_index(old))
  IN  <<old[1] - new[1], old[2] - new[2], old[3] - new[3]>>

\* one iteration of the pixel loop on the state [pixels, out]
StuckiStep(st, n) ==
  LET x == ScanX(st.pixels, n)
      y == ScanY(st.pixels, n)
      old == st.pixels[y][x]
      new == Pal(nearest_palette_index(old))
      error == StuckiError(st, n)
  IN  [pixels |-> add_error(st.pixels, x, y, error, ScanFlip(st.pixels, n)),
       out |-> Force([st.out EXCEPT ![y][x] = new])]

\* "for x in x_range": the iterations n .. stop - 1, those of one row
RECURSIVE StuckiRow(_, _, _)
StuckiRow(st, n, stop) ==
  With1(st, LAMBDA s :
    IF n = stop THEN s ELSE StuckiRow(StuckiStep(s, n), n + 1, stop))

\* "for y in range(height)", from the row that starts at iteration n
RECURSIVE StuckiLoop(_, _)
StuckiLoop(st, n) ==
  With1(st, LAMBDA s :
    IF n = Width(s.pixels) * Height(s.pixels) THEN s.out
    ELSE StuckiLoop(StuckiRow(s, n, n + Width(s.pixels)), n + Width(s.pixels)))

\* the errors the pixel loop hands to add_error, from iteration n on
RECURSIVE StuckiRowErrors(_, _, _)
StuckiRowErrors(st, n, stop) ==
  With1(st, LAMBDA s :
    IF n = stop THEN {}
    ELSE {StuckiError(s, n)} \cup StuckiRowErrors(StuckiStep(s, n), n + 1, stop))

RECURSIVE StuckiErrors(_, _)
StuckiErrors(st, n) ==
  With1(st, LAMBDA s :
    IF n = Width(s.pixels) * Height(s.pixels) THEN {}
    ELSE StuckiRowErrors(s, n, n + Width(s.pixels))
           \cup StuckiErrors(StuckiRow(s, n, n + Width(s.pixels)), n + Width(s.pixels)))

\* every error stucki_error_diffusion(img) diffuses
stucki_errors(img) ==
  With1(img, LAMBDA i :
    StuckiErrors([pixels |-> i, out |-> Solid(Width(i), Height(i), <<0, 0, 0>>)], 0))

stucki_error_diffusion(img) ==
  With1(img, LAMBDA i :
    StuckiLoop([pixels |-> i, out |-> Solid(Width(i), Height(i), <<0, 0, 0>>)], 0))

ordered_two_color(img, grad_mask) ==
  With1(img, LAMBDA i : [y \in Rows(i) |-> [x \in Cols(i) |->
    LET two == nearest_two_palette(i[y][x])
        alpha == mix_ratio(i[y][x], two[1], two[2])
        choose_a == AlphaGE(alpha, Bayer(x, y) + 8, 72)
    IN  Pal(IF choose_a THEN two[1] ELSE two[2])]])

\* ------------------------------------------------------------------------
\* processing/pipeline.py
\* ------------------------------------------------------------------------

Zero3 == <<0, 0, 0>>

\* One pixel of Image.quantize(palette=PAL_IMG, dither=FLOYDSTEINBERG): the
\* pixel plus the errors carried to it (in sixteenths) goes to the closest
\* palette entry, and its error is spread 7/16 right, 3/16 below left,
\* 5/16 below, 1/16 below right.  st = [out, e, carry, r0, r1], e being
\* the error row of Width + 1 entries.
FSStep(img, st, x, y) ==
  LET first == x = 1
      carry == IF first THEN Zero3 ELSE st.carry
      r0 == IF first THEN Zero3 ELSE st.r0
      r1 == IF first THEN Zero3 ELSE st.r1
      in == img[y][x]
      v == [c \in 1 .. 3 |-> Clip8(in[c] + TruncDiv(carry[c] + st.e[x + 1][c], 16))]
      new == Pal(NearestLoop(<<v[1], v[2], v[3]>>, 0, 0, Inf))
      err == [c \in 1 .. 3 |-> v[c] - new[c]]
      below == <<3 * err[1] + r0[1], 3 * err[2] + r0[2], 3 * err[3] + r0[3]>>
      r0n == <<5 * err[1] + r1[1], 5 * err[2] + r1[2], 5 * err[3] + r1[3]>>
      e1 == [st.e EXCEPT ![x] = below]
  IN  [out |-> Force([st.out EXCEPT ![y][x] = new]),
       e |-> Force(IF x = Width(img) THEN [e1 EXCEPT ![x + 1] = r0n] ELSE e1),
       carry |-> <<7 * err[1], 7 * err[2], 7 * err[3]>>,
       r0 |-> r0n,
       r1 |-> <<err[1], err[2], err[3]>>]

\* the pixels n .. stop - 1, those of one row
RECURSIVE FSRow(_, _, _, _)
FSRow(img, st, n, stop) ==
  With1(st, LAMBDA s :
    IF n = stop THEN s
    ELSE FSRow(img, FSStep(img, s, (n % Width(img)) + 1, (n \div Width(img)) + 1),
               n + 1, stop))

\* the rows, from the one that starts at pixel n
RECURSIVE FSLoop(_, _, _)
FSLoop(img, st, n) ==
  With1(st, LAMBDA s :
    IF n = Width(img) * Height(img) THEN s.out
    ELSE FSLoop(img, FSRow(img, s, n, n + Width(img)), n + Width(img)))

quantize_palette_fs(img) ==
  With1(img, LAMBDA i :
    FSLoop(i, [out |-> Solid(Width(i), Height(i), Zero3),
               e |-> [c \in 1 .. (Width(i) + 1) |-> Zero3],
               carry |-> Zero3, r0 |-> Zero3, r1 |-> Zero3], 0))

quantize_palette_none(img) ==
  Map1(img, LAMBDA p : Pal(nearest_palette_index(p)))

tinted_flat_regions(ui_rgb, flat, cfg) ==
  LET hsv == ConvertHSV(ui_rgb)
      saturation == Band(hsv, 2)
      value == Band(hsv, 3)
      sat_mask == Point(saturation, LAMBDA s : IF s >= cfg.ui_tint_saturation THEN 255 ELSE 0)
      bright_mask == Point(value, LAMBDA v : IF v >= cfg.ui_tint_min_value THEN 255 ELSE 0)
      tinted1 == ImageChops_multiply(sat_mask, bright_mask)
      tinted2 == ImageChops_multiply(tinted1, flat)
      tinted3 == GaussianBlur(MaxFilter(tinted2, 3), 1)
  IN  Point(tinted3, LAMBDA p : IF p >= 32 THEN 255 ELSE 0)

\* (palette index, hue in degrees)
TINTED_HUE_TARGETS == << <<2, 0>>, <<6, 30>>, <<3, 60>>, <<4, 120>>, <<5, 240>> >>

\* 17 * _angular_distance(hue, target) for hue = hue_raw / 255 * 360
angular_distance17(hue_raw, target) ==
  LET diff == Abs(24 * hue_raw - 17 * target)
  IN  Min2(diff, 6120 - diff)

\* min(_TINTED_HUE_TARGETS, key=...): the first target at the least distance
RECURSIVE NearestHueLoop(_, _, _)
NearestHueLoop(hue_raw, i, best) ==
  IF i > Len(TINTED_HUE_TARGETS) THEN TINTED_HUE_TARGETS[best][1]
  ELSE IF angular_distance17(hue_raw, TINTED_HUE_TARGETS[i][2])
            < angular_distance17(hue_raw, TINTED_HUE_TARGETS[best][2])
       THEN NearestHueLoop(hue_raw, i + 1, i)
       ELSE NearestHueLoop(hue_raw, i + 1, best)

\* int(round(alpha * base + (1 - alpha) * cand)) for one channel.  With
\* q = alpha.num * (base - cand) / alpha.den the value is cand + q, rounded
\* to nearest; an exact half can only occur when eps = 1, and the epsilon
\* then leaves the value just on the candidate's side of the half.
MixRound(alpha, base, cand) ==
  LET num == alpha.num * (base - cand)
      fl == num \div alpha.den
      rem == num - fl * alpha.den
  IN  cand + (IF 2 * rem < alpha.den THEN fl
              ELSE IF 2 * rem > alpha.den THEN fl + 1
              ELSE IF num > 0 THEN fl ELSE fl + 1)

\* the loop over the candidates; best = [candidate, alpha, error]
RECURSIVE TintCandidateLoop(_, _, _, _)
TintCandidateLoop(rgb, base_index, candidate, best) ==
  IF candidate > 6 THEN best
  ELSE IF candidate = base_index
  THEN TintCandidateLoop(rgb, base_index, candidate + 1, best)
  ELSE LET alpha == mix_ratio(rgb, base_index, candidate)
           base_color == Pal(base_index)
           candidate_color == Pal(candidate)
           approx == <<MixRound(alpha, base_color[1], candidate_color[1]),
                       MixRound(alpha, base_color[2], candidate_color[2]),
                       MixRound(alpha, base_color[3], candidate_color[3])>>
           error == SqDist(approx, rgb)
       IN  IF error < best.error
           THEN TintCandidateLoop(rgb, base_index, candidate + 1,
                  [candidate |-> candidate, alpha |-> alpha, error |-> error])
           ELSE TintCandidateLoop(rgb, base_index, candidate + 1, best)

TintedPixel(rgb, x, y) ==
  LET hsv == RGBtoHSV(rgb)
      base_index == NearestHueLoop(hsv[1], 2, 1)
      best == TintCandidateLoop(rgb, base_index, 0,
                [candidate |-> base_index, alpha |-> AlphaOne,
                 error |-> SqDist(Pal(base_index), rgb)])
      choose_base == AlphaGE(best.alpha, Bayer(x, y) + 8, 72)
  IN  IF hsv[2] <= 1 THEN Pal(nearest_palette_index(rgb))
      ELSE Pal(IF choose_base THEN base_index ELSE best.candidate)

tinted_palette_mix(ui_rgb) ==
  With1(ui_rgb, LAMBDA i : [y \in Rows(i) |-> [x \in Cols(i) |-> TintedPixel(i[y][x], x, y)]])

\* ------------------------------------------------------------------------
\* processing/palette.py: palette_fit_mask
\* ------------------------------------------------------------------------

\* the parameters palette_fit_mask declares
palette_fit_mask_params == {"src", "quantized", "threshold"}

\* the exceptions binding the keyword arguments of a call raises: TypeError
\* for a keyword that is no parameter
bind_keywords(keywords, params) ==
  IF keywords \subseteq params THEN <<>> ELSE <<"TypeError">>

palette_fit_mask(src, quantized, distance_threshold) ==
  Map2(src, quantized, LAMBDA p, q : IF SqDist(p, q) <= distance_threshold THEN 255 ELSE 0)

\* ------------------------------------------------------------------------
\* config.py: ProxySettings
\* ------------------------------------------------------------------------

\* An environment is a function from the names of the variables that are
\* set to the numbers int() and float() read from their strings;
\* os.getenv(name, default)
getenv(env, name, default) == IF name \in DOMAIN env THEN env[name] ELSE default

\* ProxySettings.from_env(): the fields the image pipeline reads.  Floats
\* are in hundredths (contrast 1.25, saturation 1.2, sharpness_ui 2.0,
\* gamma 0.95).
from_env(env) ==
  [retries |-> getenv(env, "SOURCE_RETRIES", 2),
   contrast |-> getenv(env, "CONTRAST", 125),
   saturation |-> getenv(env, "SATURATION", 120),
   sharpness_ui |-> getenv(env, "SHARPNESS_UI", 200),
   gamma |-> getenv(env, "GAMMA", 95),
   edge_threshold |-> getenv(env, "EDGE_THR", 26),
   mid_l_min |-> getenv(env, "MID_L_MIN", 70),
   mid_l_max |-> getenv(env, "MID_L_MAX", 200),
   mid_s_max |-> getenv(env, "MID_S_MAX", 90),
   mask_blur |-> getenv(env, "MASK_BLUR", 2),
   photo_mode |-> getenv(env, "PHOTO_MODE", "hybrid"),
   sky_gradient_threshold |-> getenv(env, "SKY_GRAD_THR", 14),
   ui_palette_threshold |-> getenv(env, "UI_PALETTE_THR", 1800),
   ui_tint_saturation |-> getenv(env, "UI_TINT_SAT", 35),
   ui_tint_min_value |-> getenv(env, "UI_TINT_MIN_V", 120),
   texture_density_threshold |-> getenv(env, "TEXTURE_DENSITY_THR", 12)]

\* the environment with none of the variables set
NoEnv == [name \in {} |-> 0]

DefaultSettings == from_env(NoEnv)

\* a dataclass declared without frozen=True
ProxySettingsMutable == FALSE

\* @dataclass(frozen=True): assigning to a field raises FrozenInstanceError
ProxySettingsFrozen == TRUE

\* setattr(obj, name, value) on a ProxySettings: the object afterwards and
\* whether the assignment raised
dataclass_setattr(obj, name, value) ==
  IF ProxySettingsFrozen
  THEN [obj |-> obj, raised |-> TRUE]
  ELSE [obj |-> [obj EXCEPT ![name] = value], raised |-> FALSE]

\* ------------------------------------------------------------------------
\* infrastructure/network.py: the target URL
\* ------------------------------------------------------------------------

\* A URL is what urlsplit makes of it: scheme, netloc, path, query and
\* fragment.  A path is its segments, whether it starts with "/" and
\* whether it ends with "/"; a query is what parse_qsl(keep_blank_values)
\* makes of it, the decoded (key, value) pairs in their order.
EmptyPath == [abs |-> FALSE, segs |-> <<>>, slash |-> FALSE]

NonEmpty(path) == path.abs \/ path.segs # <<>>

\* urlunsplit: with a netloc, a path that does not start with "/" gets one
urlunsplit(parts) ==
  IF parts.netloc # "" /\ NonEmpty(parts.path) /\ ~parts.path.abs
  THEN [parts EXCEPT !.path.abs = TRUE]
  ELSE parts

DictKeys(d) == { d[i].key : i \in 1 .. Len(d) }

\* query[key] = value: an existing key keeps its place
dict_set(d, key, value) ==
  IF key \in DictKeys(d)
  THEN [i \in 1 .. Len(d) |->
          IF d[i].key = key THEN [key |-> key, value |-> value] ELSE d[i]]
  ELSE Append(d, [key |-> key, value |-> value])

\* query.pop(key, None)
dict_pop(d, key) == SelectSeq(d, LAMBDA e : e.key # key)

RECURSIVE DictLoop(_, _, _)
\* dict(pairs): a repeated key keeps the place of its first pair and the
\* value of its last
DictLoop(pairs, i, d) ==
  IF i > Len(pairs) THEN d
  ELSE DictLoop(pairs, i + 1, dict_set(d, pairs[i].key, pairs[i].value))

dict(pairs) == DictLoop(pairs, 1, <<>>)

\* a mapping built by its items alone
items_as_is(pairs) == pairs

RECURSIVE MergeLoop(_, _, _)
\* for key, value in overrides.items(): pop the key or set it
MergeLoop(query, items, i) ==
  IF i > Len(items) THEN query
  ELSE MergeLoop(IF items[i].none
                 THEN dict_pop(query, items[i].key)
                 ELSE dict_set(query, items[i].key, items[i].value),
                 items, i + 1)

\* overrides: [none |-> TRUE] for None, else the items of the mapping
merge_query_params(url, overrides) ==
  IF overrides.none \/ overrides.items = <<>> THEN url
  ELSE urlunsplit([url EXCEPT !.query = MergeLoop(dict(url.query), overrides.items, 1)])

\* base_path if it ends with "/", else base_path + "/"; "/" for ""
normalize_base_for_join(base_path) ==
  IF ~NonEmpty(base_path) THEN [abs |-> TRUE, segs |-> <<>>, slash |-> TRUE]
  ELSE [base_path EXCEPT !.slash = TRUE]

RECURSIVE NormLoop(_, _, _, _)
\* posixpath.normpath on the segments: "." goes, ".." takes the segment
\* before it (nothing at the root)
NormLoop(segs, i, acc, abs) ==
  IF i > Len(segs) THEN acc
  ELSE NormLoop(segs, i + 1,
         IF segs[i] = "." THEN acc
         ELSE IF segs[i] = ".." /\ acc # <<>> /\ acc[Len(acc)] # ".."
              THEN SubSeq(acc, 1, Len(acc) - 1)
         ELSE IF segs[i] = ".." /\ abs THEN acc
         ELSE Append(acc, segs[i]), abs)

\* the joined path, normalized, with a leading "/"
resolve_relative_path(base_path, override_path) ==
  LET normalized_base == normalize_base_for_join(base_path)
      joined == NormLoop(normalized_base.segs \o override_path.segs, 1, <<>>,
                         normalized_base.abs)
  IN  [abs |-> TRUE, segs |-> joined, slash |-> FALSE]

\* base_url and path_override: [given |-> FALSE] for None.  The result is
\* the URL, or the ValueError of a base without scheme or netloc.
apply_base_and_path(url, base_url, path_override) ==
  LET path_to_use == IF path_override.given THEN path_override.path ELSE url.path
      base_parts == base_url.url
      new_path ==
        IF NonEmpty(path_to_use) /\ ~path_to_use.abs /\ NonEmpty(base_parts.path)
        THEN resolve_relative_path(base_parts.path, path_to_use)
        ELSE IF NonEmpty(path_to_use) /\ ~path_to_use.abs
        THEN resolve_relative_path([abs |-> TRUE, segs |-> <<>>, slash |-> TRUE], path_to_use)
        ELSE IF NonEmpty(path_to_use) THEN path_to_use ELSE base_parts.path
  IN  IF ~base_url.given /\ ~path_override.given
      THEN [raised |-> <<>>, url |-> url]
      ELSE IF base_url.given
      THEN IF base_parts.scheme = "" \/ base_parts.netloc = ""
           THEN [raised |-> <<"ValueError">>, url |-> url]
           ELSE [raised |-> <<>>,
                 url |-> urlunsplit([base_parts EXCEPT !.path = new_path,
                                                       !.query = url.query,
                                                       !.fragment = url.fragment])]
      ELSE [raised |-> <<>>, url |-> urlunsplit([url EXCEPT !.path = path_to_use])]

\* ------------------------------------------------------------------------
\* Inputs of the model
\* ------------------------------------------------------------------------

\* side of the largest input rasters
MaxSide == 4

\* invocations of composite_regional in one behaviour
MaxCalls == 2

Black == <<0, 0, 0>>

White == <<255, 255, 255>>

DarkGrey == <<40, 40, 40>>

Red == <<255, 0, 0>>

Pastel == <<250, 240, 150>>

\* a green the sharp layer turns black: far from the source, near the palette
DarkGreen == <<0, 90, 0>>

SolidColours == {Black, White, Red, Pastel, DarkGreen}

RightColours == {DarkGrey, Red, Pastel}

Sizes == { <<1, 1>>, <<MaxSide, 1>>, <<MaxSide, MaxSide>> }

\* a raster of w x h pixels: colour a in the first k columns, b in the rest
TwoTone(w, h, k, a, b) ==
  [y \in 1 .. h |-> [x \in 1 .. w |-> IF x <= k THEN a ELSE b]]

\* solid rasters, and black columns on the left of a coloured rest
Rasters ==
  { Solid(s[1], s[2], b) : s \in Sizes, b \in SolidColours }
    \cup { TwoTone(s[1], s[2], k, Black, b) :
             s \in { t \in Sizes : t[1] > 2 }, k \in 1 .. (MaxSide - 1),
             b \in RightColours }

\* An image as the caller hands it over: its mode, its pixels as tuples of
\* the mode's bands (an index for mode P) and its palette (mode P only)
RGBSource(img) == [mode |-> "RGB", pixels |-> img, palette |-> <<>>]

\* Image.convert("RGB"): RGBA drops the alpha band, L repeats its band, P
\* looks the index up in the palette
convert_RGB(src) ==
  CASE src.mode = "RGB" -> src.pixels
    [] src.mode = "RGBA" -> Map1(src.pixels, LAMBDA p : <<p[1], p[2], p[3]>>)
    [] src.mode = "L" -> Map1(src.pixels, LAMBDA p : <<p[1], p[1], p[1]>>)
    [] src.mode = "P" -> Map1(src.pixels, LAMBDA p : src.palette[p[1] + 1])

\* sources of the other modes: the translucent raster and the fresh
\* palette raster of tests/test_pipeline.py, a palette raster of two inks
\* and two grey rasters
ModeSources ==
  { [mode |-> "RGBA", pixels |-> Solid(MaxSide, MaxSide, <<120, 140, 200, 180>>),
     palette |-> <<>>],
    [mode |-> "P", pixels |-> Solid(MaxSide, MaxSide, <<0>>), palette |-> <<Black>>],
    [mode |-> "P", pixels |-> TwoTone(MaxSide, 1, 1, <<0>>, <<2>>),
     palette |-> EINK_PALETTE],
    [mode |-> "L", pixels |-> Solid(MaxSide, 1, <<128>>), palette |-> <<>>],
    [mode |-> "L", pixels |-> TwoTone(MaxSide, MaxSide, 2, <<0>>, <<200>>),
     palette |-> <<>>] }

Sources == { RGBSource(r) : r \in Rasters } \cup ModeSources

PhotoModes == {"hybrid", "fs", "stucki", "ordered", "none"}

\* a snapshot that finds few photo regions, and one that calls everything flat
TextSettings == [DefaultSettings EXCEPT !.texture_density_threshold = 200]

FlatSettings ==
  [DefaultSettings EXCEPT !.sky_gradient_threshold = 256, !.ui_palette_threshold = 0]

\* a snapshot under which the blurred photo mask is between 0 and 255 on
\* strong edges
SoftSettings == [DefaultSettings EXCEPT !.texture_density_threshold = 20]

Snapshots ==
  { [DefaultSettings EXCEPT !.photo_mode = m] : m \in PhotoModes }
    \cup { TextSettings, FlatSettings, SoftSettings }

\* environments a process of the proxy is started in
Environments == { NoEnv, [name \in {"UI_PALETTE_THR"} |-> 0] }

\* PATCH /settings payloads: one field and its value
Payloads ==
  { [name |-> "ui_palette_threshold", value |-> 0],
    [name |-> "texture_density_threshold", value |-> 200] }

\* ------------------------------------------------------------------------
\* State
\* ------------------------------------------------------------------------

VARIABLES
  call, returned, ret_index, ret_alpha, ret_img,   \* palette engine calls
  SETTINGS,          \* config.SETTINGS, the process-wide settings object
  response,          \* status of the last PATCH /settings response, 0 if none
  pc,                \* position inside composite_regional
  calls,             \* completed invocations of composite_regional
  prev_out,          \* raster returned by the previous invocation
  source,            \* the image handed to composite_regional
  raised,            \* exceptions the statements executed so far raise as shipped
  src_rgb, settings, \* arguments of composite_regional
  edge_mask, mid_gray_mask, flat_mask, photo_mask,
  masking,           \* locals of build_masks
  ui_enhanced, sharp_base, high_error_mask,
  palette_mask, tinted_ui, tinted_mix, sharp_composite,
  photo_base, dithered_layer,
  quantizers,        \* photo-track quantizers composite_regional has called
  ui_region_mask, final_out,
  entries,           \* ResponseCache._entries: (key, timestamp) in insertion order
  now,               \* the last value time.time() returned
  put_count,         \* calls of ResponseCache.put so far
  fresh,             \* distinct keys put so far
  request,           \* the request being served: route, dither mode, fetch arguments
  npc,               \* position inside the request
  fetch,             \* locals of SourceFetcher.fetch_source
  last_good,         \* cache._last_good_png
  sent,              \* the PNGs send_png has sent, in order
  reply,             \* what the last request returned
  served,            \* requests answered so far
  ret_pair,          \* the pair nearest_two_palette returned
  scan               \* locals of stucki_error_diffusion in its pixel loop

cacheVars == <<entries, now, put_count, fresh>>

netVars == <<request, npc, fetch, last_good, sent, reply, served>>

stepVars == <<ret_pair, scan>>

callVars == <<call, returned, ret_index, ret_alpha, ret_img>>

procVars == <<SETTINGS, response>>

argVars == <<source, src_rgb, settings>>

maskVars == <<edge_mask, mid_gray_mask, flat_mask, photo_mask, masking>>

sharpVars == <<ui_enhanced, sharp_base>>

tintVars == <<palette_mask, tinted_ui, tinted_mix, sharp_composite>>

ditherVars == <<dithered_layer, quantizers>>

outVars == <<ui_region_mask, final_out>>

runVars ==
  <<stepVars, netVars, cacheVars, procVars, pc, calls, prev_out, argVars, maskVars, sharpVars,
    high_error_mask, tintVars, photo_base, ditherVars, outVars>>

pipeVars == <<raised, runVars>>

vars ==
  <<stepVars, netVars, cacheVars, callVars, procVars, raised, pc, calls, prev_out, argVars, maskVars, sharpVars,
    high_error_mask, tintVars, photo_base, ditherVars, outVars>>

NoImg == << <<>> >>

NoSource == RGBSource(NoImg)

NoMasking == [strong_edges |-> NoImg, clean_sub |-> NoImg, clean_edges |-> NoImg]

NoCall == [fn |-> "none", rgb |-> Zero3, a |-> 0, b |-> 0, arg |-> 0, img |-> NoImg]

\* the locals of a composite_regional invocation before it has run
FreshLocals ==
  /\ edge_mask = NoImg /\ mid_gray_mask = NoImg /\ flat_mask = NoImg
  /\ photo_mask = NoImg /\ masking = NoMasking
  /\ ui_enhanced = NoImg /\ sharp_base = NoImg /\ high_error_mask = NoImg
  /\ palette_mask = NoImg /\ tinted_ui = NoImg /\ tinted_mix = NoImg
  /\ sharp_composite = NoImg /\ photo_base = NoImg
  /\ dithered_layer = NoImg /\ quantizers = {}
  /\ ui_region_mask = NoImg /\ final_out = NoImg

\* ResponseCache(): an empty dictionary
NoCache == entries = <<>> /\ now = 0 /\ put_count = 0 /\ fresh = 0

\* b"", the initial cache._last_good_png
NoPng == [route |-> "none", mode |-> "none", n |-> 0]

NoUrl ==
  [scheme |-> "", netloc |-> "", path |-> EmptyPath, query |-> <<>>, fragment |-> ""]

NoRequest ==
  [route |-> "none", mode |-> "none",
   source_url |-> [given |-> FALSE, url |-> NoUrl],
   base_url |-> [given |-> FALSE, url |-> NoUrl],
   path |-> [given |-> FALSE, path |-> EmptyPath],
   overrides |-> [none |-> TRUE, items |-> <<>>]]

\* the locals of fetch_source before its loop; failures lists the
\* exceptions its attempts have raised
NoFetch ==
  [attempt |-> 1, gets |-> 0, last_exception |-> "None", failures |-> <<>>,
   target_url |-> NoUrl, result |-> "none", carried |-> "None"]

NoReply == [status |-> 0, body |-> NoPng, failed |-> FALSE]

\* stucki_error_diffusion before it is entered: visited lists the pixels
\* its loop has quantized
NoStucki == [pixels |-> NoImg, out |-> NoImg, n |-> 0, visited |-> <<>>]

NoSteps == ret_pair = <<-1, -1>> /\ scan = NoStucki

\* no request has been received; sent lists the PNGs send_png has sent
NoNet ==
  /\ request = NoRequest /\ npc = "idle" /\ fetch = NoFetch
  /\ last_good = NoPng /\ sent = <<>> /\ reply = NoReply /\ served = 0

NoCalls ==
  /\ call = NoCall /\ returned = "none" /\ ret_index = -1
  /\ ret_alpha = AlphaZero /\ ret_img = NoImg

NoPipeline ==
  /\ SETTINGS = DefaultSettings /\ response = 0
  /\ pc = "off" /\ calls = 0 /\ prev_out = NoImg
  /\ source = NoSource /\ raised = <<>>
  /\ src_rgb = NoImg /\ settings = DefaultSettings
  /\ FreshLocals

\* ------------------------------------------------------------------------
\* Calls of the palette engine on sampled arguments
\* ------------------------------------------------------------------------

\* channel values at the decision boundaries of is_neutral and nearest_bw
\* and of the palette, plus an even grid
Channels ==
  {0, 12, 13, 128, 165, 200, 201, 229, 230, 255}
    \cup { (i * 255) \div GridN : i \in 0 .. GridN }

RGBSamples == { <<r, g, b>> : r \in Channels, g \in Channels, b \in Channels }

MixSamples == PaletteColours \cup { <<128, 128, 128>>, <<120, 140, 200>> }

RowImages == { << <<p, q>> >> : p \in MixSamples, q \in MixSamples }

NearestCalls ==
  { [fn |-> "nearest_palette_index", rgb |-> c, a |-> 0, b |-> 0, arg |-> 0, img |-> NoImg]
      : c \in RGBSamples }

MixCalls ==
  { [fn |-> "mix_ratio", rgb |-> c, a |-> i, b |-> j, arg |-> 0, img |-> NoImg]
      : c \in MixSamples, i \in PaletteIndices, j \in PaletteIndices }

QuantizeCalls ==
  { [fn |-> "quantize_palette_none", rgb |-> <<0, 0, 0>>, a |-> 0, b |-> 0, arg |-> 0, img |-> m]
      : m \in RowImages }

\* side of the grey rasters handed to ordered_two_color: two periods of
\* the 8 x 8 matrix
OrderedSide == 16

\* neutral greys: black, the two mid-greys around 127.5, white and others
GreyLevels == {0, 64, 127, 128, 200, 255}

OrderedCalls ==
  { [fn |-> "ordered_two_color", rgb |-> <<0, 0, 0>>, a |-> 0, b |-> 0, arg |-> 0,
     img |-> Solid(OrderedSide, OrderedSide, <<v, v, v>>)] : v \in GreyLevels }

\* "L" rasters with the extreme and the middle values
ChannelRows == { << <<0, 1, 127, 254, 255>> >>, << <<0, 0, 0>>, <<0, 255, 0>>, <<0, 0, 0>> >> }

\* thresholds: negative, 0, inside the range, the largest value of a band
\* and beyond it
ThresholdValues == {-1, 0, 1, 128, 255, 256}

\* gamma in hundredths: negative, 0, the default and the value that skips
\* the table
GammaValues == {-95, 0, 95, 100}

\* mask_blur: 0 and the radii of the blur table
BlurValues == {0, 1, 2, 3}

StageCalls ==
  { [fn |-> "threshold_channel", rgb |-> <<0, 0, 0>>, a |-> 0, b |-> 0,
     arg |-> t, img |-> m] : t \in ThresholdValues, m \in ChannelRows }
    \cup { [fn |-> "apply_gamma", rgb |-> <<0, 0, 0>>, a |-> 0, b |-> 0,
             arg |-> g, img |-> m] : g \in GammaValues, m \in RowImages }
    \cup { [fn |-> "GaussianBlur", rgb |-> <<0, 0, 0>>, a |-> 0, b |-> 0,
             arg |-> r, img |-> m] : r \in BlurValues, m \in ChannelRows }

InitPalette ==
  /\ call \in NearestCalls \cup MixCalls \cup QuantizeCalls \cup OrderedCalls
               \cup StageCalls
  /\ returned = "none"
  /\ ret_index = -1
  /\ ret_alpha = AlphaZero
  /\ ret_img = NoImg
  /\ NoPipeline
  /\ NoCache
  /\ NoNet
  /\ NoSteps

CallNearestPaletteIndex ==
  /\ returned = "none"
  /\ call.fn = "nearest_palette_index"
  /\ ret_index' = nearest_palette_index(call.rgb)
  /\ returned' = call.fn
  /\ UNCHANGED <<call, ret_alpha, ret_img, pipeVars>>

\* a call that raises returns nothing: ret_alpha keeps its initial value
CallMixRatio ==
  /\ returned = "none"
  /\ call.fn = "mix_ratio"
  /\ raised' = mix_ratio_raises(call.rgb, call.a, call.b)
  /\ ret_alpha' = IF raised' = <<>> THEN mix_ratio(call.rgb, call.a, call.b) ELSE ret_alpha
  /\ returned' = call.fn
  /\ UNCHANGED <<call, ret_index, ret_img, runVars>>

CallQuantizePaletteNone ==
  /\ returned = "none"
  /\ call.fn = "quantize_palette_none"
  /\ ret_img' = quantize_palette_none(call.img)
  /\ returned' = call.fn
  /\ UNCHANGED <<call, ret_index, ret_alpha, pipeVars>>

\* ordered_two_color ignores its grad_mask argument
CallOrderedTwoColor ==
  /\ returned = "none"
  /\ call.fn = "ordered_two_color"
  /\ ret_img' = ordered_two_color(call.img, NoImg)
  /\ returned' = call.fn
  /\ UNCHANGED <<call, ret_index, ret_alpha, pipeVars>>

\* photo_mask, strong_edges, mid_l: threshold_channel(channel, threshold)
CallThresholdChannel ==
  /\ returned = "none"
  /\ call.fn = "threshold_channel"
  /\ ret_img' = threshold_channel(call.img, call.arg, FALSE)
  /\ returned' = call.fn
  /\ UNCHANGED <<call, ret_index, ret_alpha, pipeVars>>

\* apply_gamma(img, gamma); a call that raises returns no raster
CallApplyGamma ==
  /\ returned = "none"
  /\ call.fn = "apply_gamma"
  /\ raised' = apply_gamma_raises(call.arg)
  /\ ret_img' = IF raised' = <<>> THEN apply_gamma(call.img, call.arg) ELSE NoImg
  /\ returned' = call.fn
  /\ UNCHANGED <<call, ret_index, ret_alpha, runVars>>

\* edge_mask, mid_gray_mask: mask.filter(ImageFilter.GaussianBlur(mask_blur))
CallGaussianBlur ==
  /\ returned = "none"
  /\ call.fn = "GaussianBlur"
  /\ ret_img' = GaussianBlur(call.img, call.arg)
  /\ returned' = call.fn
  /\ UNCHANGED <<call, ret_index, ret_alpha, pipeVars>>

NextPalette ==
  \/ CallNearestPaletteIndex \/ CallMixRatio \/ CallQuantizePaletteNone
  \/ CallOrderedTwoColor
  \/ CallThresholdChannel \/ CallApplyGamma \/ CallGaussianBlur

SpecPalette == InitPalette /\ [][NextPalette]_vars

\* ------------------------------------------------------------------------
\* composite_regional, one action per numbered step of the function
\* ------------------------------------------------------------------------

\* composite_regional has been entered and has run its first statement,
\* src_rgb = src_rgb.convert("RGB")
Init ==
  /\ NoCalls
  /\ NoCache
  /\ NoNet
  /\ NoSteps
  /\ SETTINGS = DefaultSettings
  /\ response = 0
  /\ pc = "build_masks"
  /\ calls = 0
  /\ prev_out = NoImg
  /\ source \in Sources
  /\ raised = <<>>
  /\ src_rgb = convert_RGB(source)
  /\ settings \in Snapshots
  /\ FreshLocals

\* 1. Generate Masks
BuildMasks ==
  /\ pc = "build_masks"
  /\ LET m == build_masks(src_rgb, settings)
     IN  /\ edge_mask' = m.edge_mask
         /\ mid_gray_mask' = m.mid_gray_mask
         /\ flat_mask' = m.flat
         /\ photo_mask' = m.photo_mask
         /\ masking' = [strong_edges |-> m.strong_edges, clean_sub |-> m.clean_sub,
                        clean_edges |-> m.clean_edges]
  /\ pc' = "sharp_layer"
  /\ UNCHANGED <<stepVars, netVars, cacheVars, raised, callVars, procVars, calls, prev_out, argVars, sharpVars,
                 high_error_mask, tintVars, photo_base, ditherVars, outVars>>

\* 2. Generate Sharp UI Layer
SharpLayer ==
  /\ pc = "sharp_layer"
  /\ ui_enhanced' = enhance_ui(src_rgb, settings)
  /\ sharp_base' = quantize_palette_none(ui_enhanced')
  /\ raised' = raised \o darken_lines_raises \o apply_gamma_raises(settings.gamma)
  /\ pc' = "high_error"
  /\ UNCHANGED <<stepVars, netVars, cacheVars, callVars, procVars, calls, prev_out, argVars, maskVars,
                 high_error_mask, tintVars, photo_base, ditherVars, outVars>>

\* 3. Detect "Bad Colors" (High Error Mask)
HighErrorMask ==
  /\ pc = "high_error"
  /\ LET diff == ImageChops_difference(src_rgb, sharp_base)
         diff_gray == ConvertL(diff)
         thresholded == Point(diff_gray, LAMBDA p : IF p > 45 THEN 255 ELSE 0)
     IN  high_error_mask' = GaussianBlur(MedianFilter(thresholded, 3), 3)
  /\ pc' = "tint"
  /\ UNCHANGED <<stepVars, netVars, cacheVars, raised, callVars, procVars, calls, prev_out, argVars, maskVars,
                 sharpVars, tintVars, photo_base, ditherVars, outVars>>

\* 4. Apply Tinting to UI.  The call passes ui_enhanced, sharp_base and the
\* keyword settings=settings; palette_fit_mask declares (src, quantized,
\* threshold=None), so no threshold reaches it and its body takes
\* SETTINGS.ui_palette_threshold of the process-wide object.
TintUI ==
  /\ pc = "tint"
  /\ palette_mask' = palette_fit_mask(ui_enhanced, sharp_base, SETTINGS.ui_palette_threshold)
  /\ tinted_ui' = ImageChops_subtract(tinted_flat_regions(ui_enhanced, flat_mask, settings),
                                      edge_mask)
  /\ tinted_mix' = tinted_palette_mix(ui_enhanced)
  /\ sharp_composite' = Image_composite(tinted_mix', sharp_base, tinted_ui')
  /\ raised' = raised \o bind_keywords({"settings"}, palette_fit_mask_params)
  /\ pc' = "photo_base"
  /\ UNCHANGED <<stepVars, netVars, cacheVars, callVars, procVars, calls, prev_out, argVars, maskVars,
                 sharpVars, high_error_mask, photo_base, ditherVars, outVars>>

\* 5. Generate Photo/Dither Layer
PhotoBase ==
  /\ pc = "photo_base"
  /\ photo_base' = enhance_photo(src_rgb, settings)
  /\ raised' = raised \o apply_gamma_raises(settings.gamma)
  /\ pc' = "dither"
  /\ UNCHANGED <<stepVars, netVars, cacheVars, callVars, procVars, calls, prev_out, argVars, maskVars,
                 sharpVars, high_error_mask, tintVars, ditherVars, outVars>>

\* the photo_mode of the process-wide settings object
ProcessMode == SETTINGS.photo_mode

\* the photo_mode the mode selection reads
SelectedMode == settings.photo_mode

DitherFS ==
  /\ pc = "dither"
  /\ SelectedMode = "fs"
  /\ dithered_layer' = quantize_palette_fs(photo_base)
  /\ quantizers' = {"fs"}
  /\ pc' = "composite"
  /\ UNCHANGED <<stepVars, netVars, cacheVars, raised, callVars, procVars, calls, prev_out, argVars, maskVars,
                 sharpVars, high_error_mask, tintVars, photo_base, outVars>>

DitherStucki ==
  /\ pc = "dither"
  /\ SelectedMode = "stucki"
  /\ dithered_layer' = stucki_error_diffusion(photo_base)
  /\ quantizers' = {"stucki"}
  /\ pc' = "composite"
  /\ UNCHANGED <<stepVars, netVars, cacheVars, raised, callVars, procVars, calls, prev_out, argVars, maskVars,
                 sharpVars, high_error_mask, tintVars, photo_base, outVars>>

DitherOrdered ==
  /\ pc = "dither"
  /\ SelectedMode = "ordered"
  /\ dithered_layer' = ordered_two_color(photo_base, flat_mask)
  /\ quantizers' = {"ordered"}
  /\ pc' = "composite"
  /\ UNCHANGED <<stepVars, netVars, cacheVars, raised, callVars, procVars, calls, prev_out, argVars, maskVars,
                 sharpVars, high_error_mask, tintVars, photo_base, outVars>>

\* Default hybrid photo processing
DitherHybrid ==
  /\ pc = "dither"
  /\ SelectedMode \notin {"fs", "stucki", "ordered"}
  /\ LET ordered == ordered_two_color(photo_base, flat_mask)
         stucki == stucki_error_diffusion(photo_base)
     IN  dithered_layer' = Image_composite(ordered, stucki, flat_mask)
  /\ quantizers' = {"ordered", "stucki"}
  /\ pc' = "composite"
  /\ UNCHANGED <<stepVars, netVars, cacheVars, raised, callVars, procVars, calls, prev_out, argVars, maskVars,
                 sharpVars, high_error_mask, tintVars, photo_base, outVars>>

\* a last paste that repaints nothing
NoRepaintMask == Map1(photo_mask, LAMBDA p : 0)

\* the mask of the last paste: 7. Final Safety
RepaintMask == photo_mask

\* 6. Final Composite Logic and 7. Final Safety, then return final_out
FinalComposite ==
  /\ pc = "composite"
  /\ LET safe_palette_match == ImageChops_subtract(palette_mask, high_error_mask)
         sharp_pasted == Paste(dithered_layer, sharp_composite, ui_region_mask')
     IN  /\ ui_region_mask' = ImageChops_lighter(edge_mask, safe_palette_match)
         /\ final_out' = Paste(sharp_pasted, dithered_layer, RepaintMask)
  /\ pc' = "done"
  /\ calls' = calls + 1
  /\ UNCHANGED <<stepVars, netVars, cacheVars, raised, callVars, procVars, prev_out, argVars, maskVars, sharpVars,
                 high_error_mask, tintVars, photo_base, ditherVars>>

\* composite_regional is called again with the same raster and snapshot
Reinvoke ==
  /\ pc = "done"
  /\ calls < MaxCalls
  /\ response' = 0
  /\ raised' = <<>>
  /\ prev_out' = final_out
  /\ pc' = "build_masks"
  /\ edge_mask' = NoImg /\ mid_gray_mask' = NoImg /\ flat_mask' = NoImg
  /\ photo_mask' = NoImg /\ masking' = NoMasking
  /\ ui_enhanced' = NoImg /\ sharp_base' = NoImg /\ high_error_mask' = NoImg
  /\ palette_mask' = NoImg /\ tinted_ui' = NoImg /\ tinted_mix' = NoImg
  /\ sharp_composite' = NoImg /\ photo_base' = NoImg
  /\ dithered_layer' = NoImg /\ quantizers' = {}
  /\ ui_region_mask' = NoImg /\ final_out' = NoImg
  /\ UNCHANGED <<stepVars, netVars, cacheVars, callVars, SETTINGS, calls, argVars>>

\* The proxy is started again (config.py: SETTINGS = ProxySettings.from_env()
\* runs at import) and composite_regional is called with the same raster
\* and snapshot in the new process
RestartAndInvoke ==
  /\ pc = "done"
  /\ calls < MaxCalls
  /\ \E env \in Environments : SETTINGS' = from_env(env)
  /\ response' = 0
  /\ raised' = <<>>
  /\ prev_out' = final_out
  /\ pc' = "build_masks"
  /\ edge_mask' = NoImg /\ mid_gray_mask' = NoImg /\ flat_mask' = NoImg
  /\ photo_mask' = NoImg /\ masking' = NoMasking
  /\ ui_enhanced' = NoImg /\ sharp_base' = NoImg /\ high_error_mask' = NoImg
  /\ palette_mask' = NoImg /\ tinted_ui' = NoImg /\ tinted_mix' = NoImg
  /\ sharp_composite' = NoImg /\ photo_base' = NoImg
  /\ dithered_layer' = NoImg /\ quantizers' = {}
  /\ ui_region_mask' = NoImg /\ final_out' = NoImg
  /\ UNCHANGED <<stepVars, netVars, cacheVars, callVars, calls, argVars>>

\* ------------------------------------------------------------------------
\* app.py: PATCH /settings, served between two conversions
\* ------------------------------------------------------------------------

\* One payload field: it coerces, then setattr(SETTINGS, name, value).  An
\* exception of setattr is not caught and ends the request with status 500.
SettingsPatch ==
  /\ pc = "done"
  /\ response = 0
  /\ \E payload \in Payloads :
       LET r == dataclass_setattr(SETTINGS, payload.name, payload.value)
       IN  /\ SETTINGS' = r.obj
           /\ response' = IF r.raised THEN 500 ELSE 200
  /\ UNCHANGED <<stepVars, netVars, cacheVars, raised, callVars, pc, calls, prev_out, argVars, maskVars, sharpVars,
                 high_error_mask, tintVars, photo_base, ditherVars, outVars>>

Next ==
  \/ BuildMasks \/ SharpLayer \/ HighErrorMask \/ TintUI \/ PhotoBase
  \/ DitherFS \/ DitherStucki \/ DitherOrdered \/ DitherHybrid
  \/ FinalComposite \/ Reinvoke \/ RestartAndInvoke \/ SettingsPatch

Spec == Init /\ [][Next]_vars

\* ------------------------------------------------------------------------
\* composite_regional on rasters of one palette colour
\* ------------------------------------------------------------------------

\* side of the large solid rasters
SolidSide == 2 * MaxSide

SolidRasters ==
  { Solid(n, n, c) : n \in {1, MaxSide, SolidSide}, c \in PaletteColours }

ModeSnapshots == { [DefaultSettings EXCEPT !.photo_mode = m] : m \in PhotoModes }

InitSolid ==
  /\ NoCalls
  /\ NoCache
  /\ NoNet
  /\ NoSteps
  /\ SETTINGS = DefaultSettings
  /\ response = 0
  /\ pc = "build_masks"
  /\ calls = 0
  /\ prev_out = NoImg
  /\ source \in { RGBSource(r) : r \in SolidRasters }
  /\ raised = <<>>
  /\ src_rgb = convert_RGB(source)
  /\ settings \in ModeSnapshots
  /\ FreshLocals

SpecSolid == InitSolid /\ [][Next]_vars

\* ------------------------------------------------------------------------
\* infrastructure/cache.py: ResponseCache
\* ------------------------------------------------------------------------

\* the length put compares with: len(self._entries) > 16
CacheLimit == 16

\* calls of put in one behaviour
MaxPuts == 20

\* calls of put that read the same time.time() as the call before
MaxStalls == 1

\* calls of put with a key that was put before
MaxReputs == 1

RECURSIVE OldestLoop(_, _, _)
\* min(items, key=timestamp): the first item with the least timestamp
OldestLoop(items, i, best) ==
  IF i > Len(items) THEN best
  ELSE OldestLoop(items, i + 1, IF items[i].ts < items[best].ts THEN i ELSE best)

oldest(items) == items[OldestLoop(items, 2, 1)].key

\* self._entries.pop(key, None)
pop(items, key) == SelectSeq(items, LAMBDA e : e.key # key)

CacheKeys(items) == { items[i].key : i \in 1 .. Len(items) }

\* self._entries[key] = (timestamp, data): an existing key keeps its place
setitem(items, key, timestamp) ==
  IF key \in CacheKeys(items)
  THEN [i \in 1 .. Len(items) |->
          IF items[i].key = key THEN [key |-> key, ts |-> timestamp] ELSE items[i]]
  ELSE Append(items, [key |-> key, ts |-> timestamp])

\* ResponseCache.put(key, data) at the time timestamp; the data take no
\* part in the eviction and are left out
put(items, key, timestamp) ==
  LET kept == IF Len(items) > CacheLimit THEN pop(items, oldest(items)) ELSE items
  IN  setitem(kept, key, timestamp)

\* the values time.time() can return to the next call: the clock has moved
\* on, or it has not
Clock == { t \in {now, now + 1} : put_count + 1 - t <= MaxStalls }

\* put with a key never put before; keys are numbered in the order of
\* their first put
PutFresh ==
  /\ pc = "off" /\ returned = "none"
  /\ put_count < MaxPuts
  /\ \E t \in Clock :
       /\ now' = t
       /\ entries' = put(entries, fresh, t)
  /\ fresh' = fresh + 1
  /\ put_count' = put_count + 1
  /\ UNCHANGED <<stepVars, netVars, callVars, procVars, raised, pc, calls, prev_out, argVars, maskVars,
                 sharpVars, high_error_mask, tintVars, photo_base, ditherVars, outVars>>

\* put with a key put before: the first or the latest key ever put
PutAgain ==
  /\ pc = "off" /\ returned = "none"
  /\ put_count < MaxPuts
  /\ fresh > 0
  /\ put_count - fresh < MaxReputs
  /\ \E t \in Clock, key \in {0, fresh - 1} :
       /\ now' = t
       /\ entries' = put(entries, key, t)
  /\ put_count' = put_count + 1
  /\ UNCHANGED <<stepVars, netVars, fresh, callVars, procVars, raised, pc, calls, prev_out, argVars,
                 maskVars, sharpVars, high_error_mask, tintVars, photo_base,
                 ditherVars, outVars>>

InitCache == NoCalls /\ NoPipeline /\ NoCache /\ NoNet /\ NoSteps

NextCache == PutFresh \/ PutAgain

SpecCache == InitCache /\ [][NextCache]_vars

\* ------------------------------------------------------------------------
\* processing/dither.py, processing/palette.py: calls of the ditherers
\* ------------------------------------------------------------------------

\* sizes of the rasters handed to ordered_bw_halftone: one pixel, two
\* pixels, the 4 x 4 of tests/test_pipeline.py, two periods of the matrix
HalftoneSizes == { <<1, 1>>, <<2, 1>>, <<1, 2>>, <<4, 4>>, <<OrderedSide, OrderedSide>> }

HalftoneColours == { <<v, v, v>> : v \in GreyLevels } \cup {Red, Pastel}

HalftoneCalls ==
  { [fn |-> "ordered_bw_halftone", rgb |-> <<0, 0, 0>>, a |-> 0, b |-> 0, arg |-> 0,
     img |-> Solid(s[1], s[2], c)] : s \in HalftoneSizes, c \in HalftoneColours }

NearestTwoCalls ==
  { [fn |-> "nearest_two_palette", rgb |-> c, a |-> 0, b |-> 0, arg |-> 0, img |-> NoImg]
      : c \in RGBSamples \cup MixSamples }

\* width and height of the rasters handed to stucki_error_diffusion: one
\* row, one column, and rasters wider and narrower than the kernel
StuckiSizes == { <<3, 1>>, <<1, 3>>, <<2, 2>>, <<3, 3>>, <<5, 3>>, <<6, 2>> }

\* greys that leave a large error of either sign, and colours
StuckiColours == { <<200, 200, 200>>, <<60, 60, 60>>, Black, White, Pastel, <<255, 170, 40>> }

Chequer(w, h, c1, c2) ==
  [y \in 1 .. h |-> [x \in 1 .. w |-> IF (x + y) % 2 = 0 THEN c1 ELSE c2]]

StuckiCalls ==
  { [fn |-> "stucki_error_diffusion", rgb |-> <<0, 0, 0>>, a |-> 0, b |-> 0, arg |-> 0,
     img |-> Chequer(s[1], s[2], c1, c2)]
      : s \in StuckiSizes, c1 \in StuckiColours, c2 \in StuckiColours }

InitDither ==
  /\ call \in HalftoneCalls \cup NearestTwoCalls \cup StuckiCalls
  /\ returned = "none"
  /\ ret_index = -1
  /\ ret_alpha = AlphaZero
  /\ ret_img = NoImg
  /\ NoPipeline
  /\ NoCache
  /\ NoNet
  /\ NoSteps

CallOrderedBwHalftone ==
  /\ returned = "none"
  /\ call.fn = "ordered_bw_halftone"
  /\ ret_img' = ordered_bw_halftone(call.img)
  /\ returned' = call.fn
  /\ UNCHANGED <<call, ret_index, ret_alpha, ret_pair, scan, netVars, cacheVars, procVars,
                 raised, pc, calls, prev_out, argVars, maskVars, sharpVars,
                 high_error_mask, tintVars, photo_base, ditherVars, outVars>>

CallNearestTwoPalette ==
  /\ returned = "none"
  /\ call.fn = "nearest_two_palette"
  /\ ret_pair' = nearest_two_palette(call.rgb)
  /\ ret_index' = nearest_palette_index(call.rgb)
  /\ returned' = call.fn
  /\ UNCHANGED <<call, ret_alpha, ret_img, scan, netVars, cacheVars, procVars,
                 raised, pc, calls, prev_out, argVars, maskVars, sharpVars,
                 high_error_mask, tintVars, photo_base, ditherVars, outVars>>

\* stucki_error_diffusion is entered: src = img.convert("RGB") is a copy
\* of the caller's raster, out a new raster of the same size
StuckiEnter ==
  /\ returned = "none"
  /\ call.fn = "stucki_error_diffusion"
  /\ scan = NoStucki
  /\ scan' = [pixels |-> call.img,
              out |-> Solid(Width(call.img), Height(call.img), <<0, 0, 0>>),
              n |-> 0, visited |-> <<>>]
  /\ returned' = "entered"
  /\ UNCHANGED <<call, ret_index, ret_alpha, ret_img, ret_pair, netVars, cacheVars, procVars,
                 raised, pc, calls, prev_out, argVars, maskVars, sharpVars,
                 high_error_mask, tintVars, photo_base, ditherVars, outVars>>

\* one iteration of "for x in x_range" inside "for y in range(height)"
StuckiPixel ==
  /\ returned = "entered"
  /\ scan.n < Width(scan.pixels) * Height(scan.pixels)
  /\ LET after == StuckiStep([pixels |-> scan.pixels, out |-> scan.out], scan.n)
     IN  scan' = [pixels |-> after.pixels, out |-> after.out, n |-> scan.n + 1,
                  visited |-> Append(scan.visited,
                                     <<ScanX(scan.pixels, scan.n), ScanY(scan.pixels, scan.n)>>)]
  /\ UNCHANGED <<callVars, ret_pair, netVars, cacheVars, procVars,
                 raised, pc, calls, prev_out, argVars, maskVars, sharpVars,
                 high_error_mask, tintVars, photo_base, ditherVars, outVars>>

\* both loops are over: return out
StuckiReturn ==
  /\ returned = "entered"
  /\ ~(scan.n < Width(scan.pixels) * Height(scan.pixels))
  /\ ret_img' = scan.out
  /\ returned' = call.fn
  /\ UNCHANGED <<call, ret_index, ret_alpha, ret_pair, scan, netVars, cacheVars, procVars,
                 raised, pc, calls, prev_out, argVars, maskVars, sharpVars,
                 high_error_mask, tintVars, photo_base, ditherVars, outVars>>

NextDither ==
  \/ CallOrderedBwHalftone \/ CallNearestTwoPalette
  \/ StuckiEnter \/ StuckiPixel \/ StuckiReturn

SpecDither == InitDither /\ [][NextDither]_vars

\* the interpreter goes on executing a call that has been entered
SpecDitherFair == SpecDither /\ WF_vars(NextDither)

\* ------------------------------------------------------------------------
\* app.py, infrastructure/network.py: requests and the fetch of the source
\* ------------------------------------------------------------------------

\* requests in one behaviour
MaxRequests == 2

RenderPath == [abs |-> TRUE, segs |-> <<"render">>, slash |-> FALSE]

Pair(key, value) == [key |-> key, value |-> value]

UrlWith(query) ==
  [scheme |-> "http", netloc |-> "example.com", path |-> RenderPath,
   query |-> query, fragment |-> ""]

\* SETTINGS.source_url of config.py
DefaultUrl ==
  [scheme |-> "http", netloc |-> "192.168.1.199:10000",
   path |-> [abs |-> TRUE, segs |-> <<"lovelace-main", "einkpanelcolor">>, slash |-> FALSE],
   query |-> <<Pair("viewport", "800x480")>>, fragment |-> ""]

\* the URLs of tests/test_network.py, and one that repeats a key
SourceUrls ==
  { UrlWith(<<>>),
    UrlWith(<<Pair("dashboard", "main"), Pair("puppet", "default")>>),
    UrlWith(<<Pair("tag", "a"), Pair("tag", "b"), Pair("dashboard", "main")>>) }

Item(key, value, none) == [key |-> key, value |-> value, none |-> none]

OverrideSets ==
  { [none |-> TRUE, items |-> <<>>],
    [none |-> FALSE, items |-> <<>>],
    [none |-> FALSE, items |-> <<Item("dashboard", "kitchen", FALSE), Item("puppet", "night", FALSE)>>],
    [none |-> FALSE, items |-> <<Item("dashboard", "office", FALSE), Item("puppet", "", TRUE),
                                 Item("theme", "dark", FALSE)>>] }

BaseWith(scheme, netloc, path) ==
  [given |-> TRUE,
   url |-> [scheme |-> scheme, netloc |-> netloc, path |-> path, query |-> <<>>,
            fragment |-> ""]]

\* no base, "https://override.local:8123/base" and "not-a-valid-base"
BaseUrls ==
  { [given |-> FALSE, url |-> NoUrl],
    BaseWith("https", "override.local:8123",
             [abs |-> TRUE, segs |-> <<"base">>, slash |-> FALSE]),
    BaseWith("", "", [abs |-> FALSE, segs |-> <<"not-a-valid-base">>, slash |-> FALSE]) }

\* no path, "night" and "/alt/../path"
PathOverrides ==
  { [given |-> FALSE, path |-> EmptyPath],
    [given |-> TRUE, path |-> [abs |-> FALSE, segs |-> <<"night">>, slash |-> FALSE]],
    [given |-> TRUE, path |-> [abs |-> TRUE, segs |-> <<"alt", "..", "path">>, slash |-> FALSE]] }

\* calls of fetch_source with arguments
FetchRequests ==
  { [route |-> "fetch_source", mode |-> "none",
     source_url |-> [given |-> TRUE, url |-> u],
     base_url |-> b, path |-> p, overrides |-> o]
      : u \in SourceUrls, b \in BaseUrls, p \in PathOverrides, o \in OverrideSets }

\* the handlers call FETCHER.fetch_source() without arguments
RouteRequest(route, mode) == [NoRequest EXCEPT !.route = route, !.mode = mode]

\* ?dither= of /eink-image: "regional" when absent
Dithers == {"regional", "true", "false", "other"}

HandlerRequests ==
  { RouteRequest("/eink-image", m) : m \in Dithers }
    \cup { RouteRequest("/raw", "none"), RouteRequest("/debug/masks", "none") }

\* environments that set SOURCE_RETRIES
RetryEnvironments ==
  { NoEnv } \cup { [name \in {"SOURCE_RETRIES"} |-> r] : r \in {-1, 0, 1} }

\* what one GET meets: a PNG, a failing session.get, a failing
\* raise_for_status, a failing Image.open
Attempts == {"ok", "ConnectionError", "HTTPError", "UnidentifiedImageError"}

InitProxy ==
  /\ NoCalls /\ NoCache
  /\ SETTINGS \in { from_env(env) : env \in RetryEnvironments }
  /\ response = 0 /\ raised = <<>>
  /\ pc = "off" /\ calls = 0 /\ prev_out = NoImg
  /\ source = NoSource /\ src_rgb = NoImg /\ settings = DefaultSettings
  /\ FreshLocals
  /\ NoNet
  /\ NoSteps

pipeline == <<stepVars, raised, callVars, cacheVars, procVars, pc, calls, prev_out, argVars, maskVars,
              sharpVars, high_error_mask, tintVars, photo_base, ditherVars, outVars>>

\* range(1, retries + 2) stopped one later
one_more_attempt(retries) == retries + 2

\* the last value of range(1, SETTINGS.retries + 2)
last_attempt(retries) == retries + 1

\* a request arrives and fetch_source is entered
Receive ==
  /\ npc = "idle"
  /\ served < MaxRequests
  /\ request' \in HandlerRequests \cup FetchRequests
  /\ fetch' = NoFetch
  /\ reply' = NoReply
  /\ npc' = "fetch"
  /\ UNCHANGED <<last_good, sent, served, pipeline>>

\* one pass of "for attempt in range(1, SETTINGS.retries + 2)": the target
\* URL is built, then the GET is made; an exception of either is kept in
\* last_exception and the loop goes on
FetchAttempt ==
  /\ npc = "fetch"
  /\ fetch.attempt <= last_attempt(SETTINGS.retries)
  /\ LET chosen == IF request.source_url.given THEN request.source_url.url ELSE DefaultUrl
         built == apply_base_and_path(chosen, request.base_url, request.path)
         target == merge_query_params(built.url, request.overrides)
     IN  IF built.raised # <<>>
         THEN fetch' = [fetch EXCEPT !.attempt = @ + 1,
                                     !.last_exception = built.raised[1],
                                     !.failures = Append(@, built.raised[1])]
              /\ npc' = npc
         ELSE \E met \in Attempts :
                IF met = "ok"
                THEN fetch' = [fetch EXCEPT !.target_url = target, !.gets = @ + 1,
                                            !.result = "image"]
                     /\ npc' = "handle"
                ELSE fetch' = [fetch EXCEPT !.target_url = target, !.gets = @ + 1,
                                            !.attempt = @ + 1,
                                            !.last_exception = met,
                                            !.failures = Append(@, met)]
                     /\ npc' = npc
  /\ UNCHANGED <<request, last_good, sent, reply, served, pipeline>>

\* the loop is over: raise RuntimeError(last_exception)
FetchGiveUp ==
  /\ npc = "fetch"
  /\ ~(fetch.attempt <= last_attempt(SETTINGS.retries))
  /\ fetch' = [fetch EXCEPT !.result = "RuntimeError", !.carried = fetch.last_exception]
  /\ npc' = "handle"
  /\ UNCHANGED <<request, last_good, sent, reply, served, pipeline>>

\* the call of fetch_source with arguments returns to its caller
FetchReturn ==
  /\ npc = "handle"
  /\ request.route = "fetch_source"
  /\ reply' = [status |-> 0, body |-> NoPng, failed |-> fetch.result # "image"]
  /\ served' = served + 1
  /\ npc' = "idle"
  /\ UNCHANGED <<request, fetch, last_good, sent, pipeline>>

\* the names processing/pipeline.py defines or imports
pipeline_names ==
  {"quantize_palette_fs", "quantize_palette_none", "composite_regional",
   "enhance_photo", "enhance_ui", "build_masks", "palette_fit_mask"}

\* the exceptions of the conversion a route applies to the fetched image
conversion_raises(route, mode) ==
  CASE route = "/raw" -> <<>>
    [] route = "/debug/masks" -> name_lookup({"build_debug_overlay"}, pipeline_names)
    [] route = "/eink-image" /\ mode = "true" -> apply_gamma_raises(SETTINGS.gamma)
    [] route = "/eink-image" /\ mode = "false" ->
         darken_lines_raises \o apply_gamma_raises(SETTINGS.gamma)
    [] OTHER ->
         darken_lines_raises \o apply_gamma_raises(SETTINGS.gamma)
           \o bind_keywords({"settings"}, palette_fit_mask_params)
           \o apply_gamma_raises(SETTINGS.gamma)

\* remember_last_good(data) forgotten
forget_last_good(old, data) == old

\* remember_last_good(data): the new cache._last_good_png
remember_last_good(old, data) == data

\* last_good_png(): _last_good_png or None
last_good_png == last_good

\* the try block of a handler went through: send_png(out) saves the PNG,
\* remembers it and sends it
HandlerSends ==
  /\ npc = "handle"
  /\ request.route \in {"/eink-image", "/raw", "/debug/masks"}
  /\ fetch.result = "image"
  /\ conversion_raises(request.route, request.mode) = <<>>
  /\ LET data == [route |-> request.route, mode |-> request.mode, n |-> served + 1]
     IN  /\ last_good' = remember_last_good(last_good, data)
         /\ sent' = Append(sent, data)
         /\ reply' = [status |-> 200, body |-> data, failed |-> FALSE]
  /\ served' = served + 1
  /\ npc' = "idle"
  /\ UNCHANGED <<request, fetch, pipeline>>

\* except Exception in eink_image: the last good PNG, or the error text
EinkImageFallback ==
  /\ npc = "handle"
  /\ request.route = "/eink-image"
  /\ fetch.result # "image" \/ conversion_raises(request.route, request.mode) # <<>>
  /\ LET cached == last_good_png
     IN  reply' = IF cached # NoPng
                  THEN [status |-> 200, body |-> cached, failed |-> TRUE]
                  ELSE [status |-> 500, body |-> NoPng, failed |-> TRUE]
  /\ served' = served + 1
  /\ npc' = "idle"
  /\ UNCHANGED <<request, fetch, last_good, sent, pipeline>>

\* except Exception in raw and debug_masks: the error text, status 500
HandlerError ==
  /\ npc = "handle"
  /\ request.route \in {"/raw", "/debug/masks"}
  /\ fetch.result # "image" \/ conversion_raises(request.route, request.mode) # <<>>
  /\ reply' = [status |-> 500, body |-> NoPng, failed |-> TRUE]
  /\ served' = served + 1
  /\ npc' = "idle"
  /\ UNCHANGED <<request, fetch, last_good, sent, pipeline>>

NextProxy ==
  \/ Receive \/ FetchAttempt \/ FetchGiveUp \/ FetchReturn
  \/ HandlerSends \/ EinkImageFallback \/ HandlerError

SpecProxy == InitProxy /\ [][NextProxy]_vars

\* ------------------------------------------------------------------------
\* Properties of the palette engine (specification SpecPalette)
\* ------------------------------------------------------------------------

\* the neutrality test and the luminance cutoff, stated on the channels:
\* max - min <= max(12, max / 10), and 0.2126 R + 0.7152 G + 0.0722 B <= 200
NeutralRGB(rgb) ==
  LET hi == Max3(rgb[1], rgb[2], rgb[3])
      lo == Min3(rgb[1], rgb[2], rgb[3])
  IN  hi - lo <= 12 \/ 10 * (hi - lo) <= hi

DarkRGB(rgb) == 2126 * rgb[1] + 7152 * rgb[2] + 722 * rgb[3] <= 2000000

\* C3: for a neutral rgb nearest_palette_index returns black (0) when the
\* luminance is at most 200 and white (1) otherwise, never a coloured ink;
\* (128,128,128) maps to black.
C3_NeutralBias ==
  returned = "nearest_palette_index" =>
    /\ NeutralRGB(call.rgb) => ret_index = (IF DarkRGB(call.rgb) THEN 0 ELSE 1)
    /\ call.rgb = <<128, 128, 128>> => ret_index = 0

\* C3 witness: mid-grey has been mapped to black although white is the
\* nearer palette entry by plain squared distance
C3_Witness ==
  /\ returned = "nearest_palette_index"
  /\ call.rgb = <<128, 128, 128>>
  /\ ret_index = 0
  /\ SqDist(Pal(1), call.rgb) < SqDist(Pal(0), call.rgb)

\* C4: nearest_palette_index of a palette entry is that entry's own index,
\* and quantize_palette_none returns an image of palette colours unchanged.
C4_PaletteFixedPoints ==
  /\ (returned = "nearest_palette_index" /\ call.rgb \in PaletteColours)
       => (ret_index \in PaletteIndices /\ Pal(ret_index) = call.rgb)
  /\ (returned = "quantize_palette_none"
        /\ \A p \in Pixels(call.img) : call.img[p[2]][p[1]] \in PaletteColours)
       => ret_img = call.img

\* C4 witness: an image of two different palette colours, one of them not
\* neutral, has been quantized
C4_Witness ==
  /\ returned = "quantize_palette_none"
  /\ call.img[1][1] \in PaletteColours \ {Pal(0), Pal(1)}
  /\ call.img[1][2] \in PaletteColours \ {call.img[1][1]}
  /\ ret_img = call.img

\* C5 (as stated): for distinct palette indices A and B,
\* mix_ratio(palette[A], A, B) is exactly 1.0 and mix_ratio(palette[B], A, B)
\* is exactly 0.0.
C5_ExactBoundary ==
  (returned = "mix_ratio" /\ call.a # call.b) =>
    /\ call.rgb = Pal(call.a) => ret_alpha = AlphaOne
    /\ call.rgb = Pal(call.b) => ret_alpha = AlphaZero

\* C5 (amended): for distinct palette indices A and B,
\* mix_ratio(palette[B], A, B) is exactly 0.0, and mix_ratio(palette[A], A, B)
\* is D / (D + 1e-6) for D the squared distance of the two palette colours:
\* below 1.0, and within 1e-9 of it because D >= 1000.
C5_BoundaryUpToEpsilon ==
  (returned = "mix_ratio" /\ call.a # call.b) =>
    /\ call.rgb = Pal(call.a) =>
         /\ ret_alpha.eps = 1
         /\ ret_alpha.num = SqDist(Pal(call.a), Pal(call.b))
         /\ ret_alpha.den = ret_alpha.num
         /\ ret_alpha.den >= 1000
         /\ ~AlphaGE(ret_alpha, 1, 1)
    /\ call.rgb = Pal(call.b) => ret_alpha = AlphaZero

\* C5 witness: mix_ratio has been called on the first of two distinct
\* palette colours and returned a ratio that carries the epsilon
C5_Witness ==
  /\ returned = "mix_ratio"
  /\ call.a # call.b
  /\ call.rgb = Pal(call.a)
  /\ ret_alpha.eps = 1
  /\ ret_alpha.num > 0

\* ------------------------------------------------------------------------
\* Properties of composite_regional (specification Spec)
\* ------------------------------------------------------------------------

\* build_masks has returned in the current invocation
MasksBuilt == pc \notin {"off", "build_masks"}

C6_EdgePhotoExclusive ==
  MasksBuilt =>
    \A p \in Pixels(photo_mask) :
      photo_mask[p[2]][p[1]] = 255 =>
        /\ masking.clean_sub[p[2]][p[1]] = 0
        /\ masking.clean_edges[p[2]][p[1]] = 0
        /\ edge_mask[p[2]][p[1]] # 255

\* C6 witness: a pixel that is a strong edge and lies in a full-strength
\* photo region, so the subtraction has removed it from the edge mask
C6_Witness ==
  /\ MasksBuilt
  /\ \E p \in Pixels(photo_mask) :
       /\ photo_mask[p[2]][p[1]] = 255
       /\ masking.strong_edges[p[2]][p[1]] = 255

\* C7 (as stated): no pixel has flat_mask at 255 while the edge mask is at
\* 255, and no pixel has flat_mask at 255 while the photo mask is at 255.
C7_FlatExcludesBoth ==
  MasksBuilt =>
    \A p \in Pixels(flat_mask) :
      flat_mask[p[2]][p[1]] = 255 =>
        (edge_mask[p[2]][p[1]] # 255 /\ photo_mask[p[2]][p[1]] # 255)

\* C7 (amended): the flat mask excludes the edge mask only: where flat_mask
\* is 255 the cleaned edge mask is 0 and the blurred edge mask (mask_blur 2)
\* is below 255; the photo mask is not subtracted from the flat mask.
C7_FlatExcludesEdges ==
  MasksBuilt =>
    \A p \in Pixels(flat_mask) :
      flat_mask[p[2]][p[1]] = 255 =>
        (masking.clean_edges[p[2]][p[1]] = 0 /\ edge_mask[p[2]][p[1]] < 255)

\* C7 witness: a raster with a full-strength flat pixel and a full-strength
\* cleaned edge pixel that the flat mask leaves out
C7_Witness ==
  /\ MasksBuilt
  /\ \E p \in Pixels(flat_mask), q \in Pixels(flat_mask) :
       /\ flat_mask[p[2]][p[1]] = 255
       /\ masking.clean_edges[q[2]][q[1]] = 255
       /\ flat_mask[q[2]][q[1]] = 0

SolidPaletteSource ==
  \E c \in PaletteColours : src_rgb = Solid(Width(src_rgb), Height(src_rgb), c)

SolidBlackDefault ==
  /\ src_rgb = Solid(Width(src_rgb), Height(src_rgb), Black)
  /\ settings = DefaultSettings

Threshold72(x, y) == BAYER_8X8[((y - 1) % 8) + 1][((x - 1) % 8) + 1] + 8

\* the parts of C14 that do not depend on the grey level: a neutral pixel
\* is rendered black or white, black iff its black/white mix ratio is at
\* least the Bayer threshold, and the output has period 8 in x and in y
OrderedNeutralRule ==
  /\ \A p \in Pixels(call.img) :
       is_neutral(call.img[p[2]][p[1]]) =>
         ret_img[p[2]][p[1]]
           = (IF AlphaGE(mix_ratio(call.img[p[2]][p[1]], 0, 1), Threshold72(p[1], p[2]), 72)
              THEN Black ELSE White)
  /\ \A p \in Pixels(call.img) :
       /\ p[1] + 8 <= Width(call.img) => ret_img[p[2]][p[1] + 8] = ret_img[p[2]][p[1]]
       /\ p[2] + 8 <= Height(call.img) => ret_img[p[2] + 8][p[1]] = ret_img[p[2]][p[1]]

\* C14 (as stated): under ordered_two_color a neutral grey pixel is black
\* or white, black iff its mix ratio is at least the Bayer threshold; for
\* the mid-grey (128,128,128) that is the comparison 0.5 >= threshold; the
\* pattern has period 8 in x and in y.
C14_MidGreyAtHalf ==
  returned = "ordered_two_color" =>
    /\ OrderedNeutralRule
    /\ \A p \in Pixels(call.img) :
         call.img[p[2]][p[1]] = <<128, 128, 128>> =>
           (ret_img[p[2]][p[1]] = Black <=> 72 >= 2 * Threshold72(p[1], p[2]))

\* C14 (amended): as stated, except that the mid-grey (128,128,128) has
\* the mix ratio 127/255, below 0.5: it is black where the threshold is
\* below 0.5 and white where the threshold is 0.5 or more, and it is
\* (127,127,127), with the ratio 128/255, that follows the comparison
\* 0.5 >= threshold.
C14_MidGreyBelowHalf ==
  returned = "ordered_two_color" =>
    /\ OrderedNeutralRule
    /\ \A p \in Pixels(call.img) :
         /\ call.img[p[2]][p[1]] = <<128, 128, 128>> =>
              (ret_img[p[2]][p[1]] = Black <=> 72 > 2 * Threshold72(p[1], p[2]))
         /\ call.img[p[2]][p[1]] = <<127, 127, 127>> =>
              (ret_img[p[2]][p[1]] = Black <=> 72 >= 2 * Threshold72(p[1], p[2]))

\* C14 witness: the mid-grey raster has been halftoned, and a pixel whose
\* threshold is exactly 0.5 came out white next to black and white pixels
C14_Witness ==
  /\ returned = "ordered_two_color"
  /\ call.img[1][1] = <<128, 128, 128>>
  /\ \E p \in Pixels(call.img) :
       2 * Threshold72(p[1], p[2]) = 72 /\ ret_img[p[2]][p[1]] = White
  /\ \E p \in Pixels(call.img) : ret_img[p[2]][p[1]] = Black

\* the raster is in mode RGB: every pixel has three bands of 8 bits
ModeRGB(img) ==
  \A p \in Pixels(img) :
    /\ Len(img[p[2]][p[1]]) = 3
    /\ \A c \in 1 .. 3 : img[p[2]][p[1]][c] \in 0 .. 255

\* C15: composite_regional takes a source of any colour mode and, without
\* raising, returns an RGB raster of the size of the source.
C15_AnyModeReturnsRGB ==
  /\ raised = <<>>
  /\ pc = "done" =>
       /\ Width(final_out) = Width(source.pixels)
       /\ Height(final_out) = Height(source.pixels)
       /\ ModeRGB(final_out)

SameSize(out, in) == Width(out) = Width(in) /\ Height(out) = Height(in)

\* C18: whatever type-valid number a numeric setting holds (0, negative
\* and maximum values included), the threshold, gamma and blur stages
\* raise nothing and return a raster of the size of their input; with the
\* threshold 0 every pixel matches (255) and with the threshold 255 no
\* pixel matches (0).
C18_ExtremeSettings ==
  returned \in {"threshold_channel", "apply_gamma", "GaussianBlur"} =>
    /\ raised = <<>>
    /\ SameSize(ret_img, call.img)
    /\ (returned = "threshold_channel" /\ call.arg = 0) =>
         \A p \in Pixels(ret_img) : ret_img[p[2]][p[1]] = 255
    /\ (returned = "threshold_channel" /\ call.arg = 255) =>
         \A p \in Pixels(ret_img) : ret_img[p[2]][p[1]] = 0

\* C19: for every rgb and every pair of palette indices mix_ratio raises
\* nothing and returns a ratio between 0 and 1, both included; for two
\* equal indices it returns 0.
C19_MixRatioTotal ==
  returned = "mix_ratio" =>
    /\ raised = <<>>
    /\ ret_alpha.num >= 0
    /\ ret_alpha.den >= 1
    /\ ret_alpha.num <= ret_alpha.den
    /\ call.a = call.b => ret_alpha = AlphaZero

\* C19 witness: mix_ratio has returned 0 for two equal indices and a
\* colour that is not the palette colour of the index
C19_Witness ==
  /\ returned = "mix_ratio"
  /\ call.a = call.b
  /\ call.rgb # Pal(call.a)
  /\ raised = <<>>
  /\ ret_alpha = AlphaZero

\* C20: after any sequence of put calls the cache holds at most 16
\* entries, and after 20 distinct keys put in order exactly the 16 latest
\* remain: the first 4 are gone, the 5th one is there.
C20_SixteenEntries ==
  /\ Len(entries) <= 16
  /\ (put_count = 20 /\ fresh = 20) => CacheKeys(entries) = 4 .. 19

\* ------------------------------------------------------------------------
\* Properties of the fetch of the source
\* ------------------------------------------------------------------------

\* the URL fetch_source hands to _merge_query_params
BuiltUrl ==
  apply_base_and_path(IF request.source_url.given THEN request.source_url.url ELSE DefaultUrl,
                      request.base_url, request.path).url

Count(pairs, p) == Cardinality({ i \in 1..Len(pairs) : pairs[i] = p })

OverrideKeys == { request.overrides.items[i].key : i \in 1..Len(request.overrides.items) }

\* a GET of a fetch_source call has been made to the merged URL
Merged == request.route = "fetch_source" /\ fetch.gets > 0

\* C21: _merge_query_params returns the URL unchanged when there are no
\* overrides; otherwise each override key with a value is in the result with
\* that value and no other, each override key of None is absent, every other
\* original parameter is kept with its original value, and the scheme, host
\* and path are unchanged.
C21_MergeQueryParams ==
  Merged =>
    LET before == BuiltUrl
        after == fetch.target_url
        items == request.overrides.items
    IN  IF request.overrides.none \/ items = <<>>
        THEN after = before
        ELSE /\ after.scheme = before.scheme
             /\ after.netloc = before.netloc
             /\ after.path = before.path
             /\ \A i \in 1..Len(items) :
                  IF items[i].none
                  THEN \A j \in 1..Len(after.query) : after.query[j].key # items[i].key
                  ELSE \A j \in 1..Len(after.query) :
                         after.query[j].key = items[i].key
                           => after.query[j].value = items[i].value
             /\ \A i \in 1..Len(items) :
                  ~items[i].none => \E j \in 1..Len(after.query) :
                                      after.query[j] = Pair(items[i].key, items[i].value)
             /\ \A j \in 1..Len(before.query) :
                  before.query[j].key \notin OverrideKeys
                    => Count(after.query, before.query[j]) = Count(before.query, before.query[j])

\* the same for the URLs that name no key twice
C21_DistinctKeys ==
  (Merged /\ \A i, j \in 1..Len(BuiltUrl.query) :
               BuiltUrl.query[i].key = BuiltUrl.query[j].key => i = j)
    => C21_MergeQueryParams

C21_Witness ==
  /\ Merged
  /\ request.overrides.items # <<>>
  /\ \E i, j \in 1..Len(BuiltUrl.query) : i # j /\ BuiltUrl.query[i].key = BuiltUrl.query[j].key

\* the failures of fetch_source that came from a GET
GetFailures == { i \in 1..Len(fetch.failures) : fetch.failures[i] # "ValueError" }

\* C27: fetch_source makes at most retries + 1 GETs; it returns the image of
\* the first attempt that succeeds and attempts nothing after it; when every
\* attempt fails, a failure to build the target URL included, it raises
\* RuntimeError carrying the exception of the last attempt.
C27_FetchSource ==
  /\ fetch.gets <= Max2(SETTINGS.retries + 1, 0)
  /\ fetch.result = "image" =>
       /\ fetch.gets = Cardinality(GetFailures) + 1
       /\ fetch.attempt = Len(fetch.failures) + 1
  /\ fetch.result = "RuntimeError" =>
       /\ Len(fetch.failures) = Max2(SETTINGS.retries + 1, 0)
       /\ fetch.gets = Cardinality(GetFailures)
       /\ fetch.carried = IF fetch.failures = <<>> THEN "None"
                          ELSE fetch.failures[Len(fetch.failures)]
  /\ fetch.result = "none" => npc \in {"idle", "fetch"}

\* all three attempts of the default settings failed, not all alike
C27_Witness ==
  /\ fetch.result = "RuntimeError"
  /\ Len(fetch.failures) = 3
  /\ fetch.failures[1] # fetch.failures[3]
  /\ npc = "idle"

\* a third attempt succeeded
C27_ThirdAttempt == fetch.result = "image" /\ fetch.gets = 3

\* no attempt could build its URL
C27_NoUrl == fetch.result = "RuntimeError" /\ fetch.gets = 0 /\ fetch.carried = "ValueError"

\* ------------------------------------------------------------------------
\* Properties of the handlers
\* ------------------------------------------------------------------------

\* /eink-image has answered a request whose fetch or conversion raised
EinkImageFailed == npc = "idle" /\ request.route = "/eink-image" /\ reply.failed

C28_Error == EinkImageFailed /\ reply.status = 500

\* C30: the PNG that /eink-image serves as a fallback is the output of an
\* earlier /eink-image conversion, never a response of /raw or /debug/masks.
C30_FallbackIsEinkImage ==
  (EinkImageFailed /\ reply.status = 200) =>
    /\ reply.body.route = "/eink-image"
    /\ reply.body.n < served

\* the fallback is the PNG of an earlier request of any route
C30_FallbackIsEarlier ==
  (EinkImageFailed /\ reply.status = 200) =>
    \E i \in 1..Len(sent) : sent[i] = reply.body /\ reply.body.n < served

\* /raw has answered with a PNG and /eink-image then serves it
C30_RawFallback == EinkImageFailed /\ reply.status = 200 /\ reply.body.route = "/raw"

\* ------------------------------------------------------------------------
\* Properties of the ditherers
\* ------------------------------------------------------------------------

HalftoneReturned == returned = "ordered_bw_halftone"

MidGrey == <<128, 128, 128>>

\* the result is an "L" mask of the size of the input, 255 exactly where the
\* luminance exceeds 4 * bm8[y mod 8][x mod 8] + 2, and 0 elsewhere
HalftoneRule ==
  /\ Width(ret_img) = Width(call.img) /\ Height(ret_img) = Height(call.img)
  /\ \A y \in Rows(ret_img) : \A x \in Cols(ret_img) :
       /\ ret_img[y][x] \in {0, 255}
       /\ ret_img[y][x] = 255
            <=> L24(call.img[y][x]) > 4 * BAYER_8X8[((y - 1) % 8) + 1][((x - 1) % 8) + 1] + 2

HasZero(img) == \E y \in Rows(img) : \E x \in Cols(img) : img[y][x] = 0

UniformMidGrey == \A y \in Rows(call.img) : \A x \in Cols(call.img) : call.img[y][x] = MidGrey

\* C22 as stated: ordered_bw_halftone returns an L mask of the input's size
\* with pixels 0 or 255, 255 exactly when the luminance exceeds the Bayer
\* threshold of the position; for every uniform mid-grey (128) input at
\* least one output pixel is 0.
C22_AnyMidGreyHasZero ==
  HalftoneReturned => (HalftoneRule /\ (UniformMidGrey => HasZero(ret_img)))

\* C22: the same, the last part for uniform mid-grey inputs of more than
\* one pixel; the single pixel of a 1 x 1 input has threshold 2 and is 255.
C22_LargerMidGreyHasZero ==
  HalftoneReturned =>
    /\ HalftoneRule
    /\ (UniformMidGrey /\ Width(call.img) * Height(call.img) > 1) => HasZero(ret_img)
    /\ (UniformMidGrey /\ Width(call.img) * Height(call.img) = 1) => ~HasZero(ret_img)

\* the 4 x 4 mid-grey raster of the test, with black and white pixels in
\* the result
C22_Witness ==
  /\ HalftoneReturned /\ UniformMidGrey /\ Width(call.img) = 4
  /\ HasZero(ret_img)
  /\ \E y \in Rows(ret_img) : \E x \in Cols(ret_img) : ret_img[y][x] = 255

NearestTwoReturned == returned = "nearest_two_palette"

\* C23: nearest_two_palette returns (black, white) for a neutral rgb; for any
\* other rgb it returns two distinct palette indices, the first the entry
\* nearest by squared distance (the index nearest_palette_index returns), the
\* second the nearest of the others.
C23_NearestTwo ==
  NearestTwoReturned =>
    IF is_neutral(call.rgb)
    THEN ret_pair = <<0, 1>>
    ELSE /\ ret_pair[1] \in PaletteIndices /\ ret_pair[2] \in PaletteIndices
         /\ ret_pair[1] # ret_pair[2]
         /\ ret_pair[1] = ret_index
         /\ \A k \in PaletteIndices :
              SqDist(Pal(ret_pair[1]), call.rgb) <= SqDist(Pal(k), call.rgb)
         /\ \A k \in PaletteIndices \ {ret_pair[1]} :
              SqDist(Pal(ret_pair[2]), call.rgb) <= SqDist(Pal(k), call.rgb)

\* a colour whose second entry comes after its first in the palette
C23_Witness ==
  /\ NearestTwoReturned /\ ~is_neutral(call.rgb)
  /\ ret_pair[1] > 1 /\ ret_pair[2] > ret_pair[1]

\* a neutral colour nearer to another pair
C23_NeutralWitness ==
  /\ NearestTwoReturned /\ is_neutral(call.rgb)
  /\ NearestTwoLoop(call.rgb, 0, << <<Inf, -1>>, <<Inf, -1>> >>) # ret_pair

\* one iteration of the pixel loop of stucki_error_diffusion is taken
StuckiAdvances == returned = "entered" /\ scan'.n = scan.n + 1

\* a step of stucki_error_diffusion on a pixel changes, in the working
\* copy, only pixels of the two rows below within two columns, leaves every
\* channel in 0..255, keeps the size of both rasters, leaves the pixels
\* visited so far as they were, writes the output at that pixel only, and
\* leaves the raster of the caller alone
StuckiFrame ==
  StuckiAdvances =>
    LET at == scan'.visited[Len(scan'.visited)]
        x == at[1]
        y == at[2]
    IN  /\ Width(scan'.pixels) = Width(scan.pixels) /\ Height(scan'.pixels) = Height(scan.pixels)
        /\ Width(scan'.out) = Width(scan.out) /\ Height(scan'.out) = Height(scan.out)
        /\ \A ny \in Rows(scan.pixels) : \A nx \in Cols(scan.pixels) :
             /\ scan'.pixels[ny][nx] # scan.pixels[ny][nx]
                  => (ny \in {y + 1, y + 2} /\ Abs(nx - x) <= 2)
             /\ \A c \in 1..3 : scan'.pixels[ny][nx][c] \in 0..255
             /\ (nx # x \/ ny # y) => scan'.out[ny][nx] = scan.out[ny][nx]
        /\ \A i \in 1..Len(scan'.visited) :
             scan'.pixels[scan'.visited[i][2]][scan'.visited[i][1]]
               = scan.pixels[scan'.visited[i][2]][scan'.visited[i][1]]
        /\ call' = call

\* C24: while stucki_error_diffusion processes pixel (x, y) it changes only
\* working-copy pixels of rows y + 1 and y + 2 within two columns of x and
\* inside the image, each channel clamped to 0..255; visited pixels, written
\* output pixels and the caller's raster are not modified and nothing is
\* written outside the image.
C24_StuckiFrame == [][StuckiFrame]_vars

\* a step near the border of a raster wider than the kernel has changed the
\* working copy and clamped a channel at 255
C24_Witness ==
  /\ returned = "entered" /\ scan.n >= 1
  /\ scan.pixels # call.img
  /\ \E ny \in Rows(scan.pixels) : \E nx \in Cols(scan.pixels) :
       /\ scan.pixels[ny][nx] # call.img[ny][nx]
       /\ \E c \in 1..3 : scan.pixels[ny][nx][c] = 255
                           /\ call.img[ny][nx][c] + TruncDiv(60 * 8, 42) > 255

\* the pixel the i-th step of a serpentine scan of width w visits
Serpentine(i, w) ==
  LET y == ((i - 1) \div w) + 1
      k == (i - 1) % w
  IN  <<IF y % 2 = 1 THEN k + 1 ELSE w - k, y>>

\* the pixels visited so far are the first of the serpentine order; a step
\* adds the error through the kernel read in the direction of the scan;
\* the function returns after width x height steps
StuckiOrder ==
  /\ scan'.n = Len(scan'.visited)
  /\ scan'.n <= Width(scan'.pixels) * Height(scan'.pixels)
  /\ \A i \in 1..Len(scan'.visited) :
       scan'.visited[i] = Serpentine(i, Width(scan'.pixels))
  /\ returned' = "stucki_error_diffusion" =>
       /\ scan'.n = Width(call.img) * Height(call.img)
       /\ \A y \in Rows(call.img) : \A x \in Cols(call.img) :
            Cardinality({ i \in 1..Len(scan'.visited) : scan'.visited[i] = <<x, y>> }) = 1
  /\ StuckiAdvances =>
       LET at == scan'.visited[Len(scan'.visited)]
           x == at[1]
           y == at[2]
           old == scan.pixels[y][x]
           new == Pal(nearest_palette_index(old))
       IN  /\ scan'.out[y][x] = new
           /\ \A ny \in {y + 1, y + 2} \cap Rows(scan.pixels) :
                \A nx \in (x - 2)..(x + 2) \cap Cols(scan.pixels) :
                  LET dx == IF y % 2 = 0 THEN x - nx ELSE nx - x
                      k == IF ny = y + 1 THEN kernel1[dx + 3] ELSE kernel2[dx + 3]
                  IN  \A c \in 1..3 :
                        scan'.pixels[ny][nx][c]
                          = Clip8(scan.pixels[ny][nx][c] + TruncDiv((old[c] - new[c]) * k, 42))

\* C25: stucki_error_diffusion visits the rows top to bottom, the first,
\* third, ... row left to right and the others right to left, quantizes every
\* pixel exactly once with the kernel mirrored on the reversed rows, and
\* returns after exactly width x height steps.
C25_Serpentine ==
  /\ [][StuckiOrder]_vars
  /\ (returned = "entered") ~> (returned = "stucki_error_diffusion")

\* a reversed row has been scanned to its left end
C25_Witness ==
  /\ returned = "stucki_error_diffusion"
  /\ Width(call.img) = 5 /\ Height(call.img) = 3
  /\ scan.visited[6] = <<5, 2>> /\ scan.visited[10] = <<1, 2>>
  /\ scan.n = 15

\* a step leaves the row it scans as it was; the first row of the result
\* is the nearest colour of each pixel of the first row of the input, and
\* the whole result when the input has one row
StuckiFirstRow ==
  /\ StuckiAdvances =>
       LET y == scan'.visited[Len(scan'.visited)][2]
       IN  scan'.pixels[y] = scan.pixels[y]
  /\ returned' = "stucki_error_diffusion" =>
       /\ ret_img'[1] = quantize_palette_none(call.img)[1]
       /\ Height(call.img) = 1 => ret_img' = quantize_palette_none(call.img)

\* C29: Stucki diffusion passes no error to pixels of the row being
\* scanned, so the first output row is the nearest-colour quantization of
\* the first input row, and for a one-row image stucki_error_diffusion
\* returns the raster quantize_palette_none returns.
C29_FirstRowUndiffused == [][StuckiFirstRow]_vars

\* a one-row raster of two colours with errors to diffuse has been returned
C29_Witness ==
  /\ returned = "stucki_error_diffusion"
  /\ Height(call.img) = 1 /\ Width(call.img) = 3
  /\ call.img[1][1] # call.img[1][2]
  /\ ret_img # call.img
  /\ ret_img = quantize_palette_none(call.img)

\* a raster of several rows whose result differs from quantize_palette_none
C29_LowerRowsDiffer ==
  /\ returned = "stucki_error_diffusion"
  /\ Height(call.img) > 1
  /\ ret_img # quantize_palette_none(call.img)
  /\ ret_img[1] = quantize_palette_none(call.img)[1]

\* ------------------------------------------------------------------------
\* Properties of the final composite
\* ------------------------------------------------------------------------

Composited == pc = "done"

C26_Marked ==
  /\ Composited
  /\ \E y \in Rows(final_out) : \E x \in Cols(final_out) :
       /\ edge_mask[y][x] = 0 /\ high_error_mask[y][x] = 255
       /\ palette_mask[y][x] = 255

====
